---- MODULE Spec2Model ----
(***************************************************************************)
(* Study Tracker: the student dashboard's task store, its snapshot         *)
(* listener with the overdue scan, the task handlers (add, toggle, edit),  *)
(* and the derived metrics of the student and admin dashboards.            *)
(*                                                                         *)
(* Time is a line of instants; DayLen consecutive instants make one local  *)
(* calendar day.  A storage write is one atomic step taken when the        *)
(* awaited promise settles: it either takes effect or throws.              *)
(***************************************************************************)
EXTENDS Integers, Sequences, FiniteSets, TLC

\* ------------------------------------------------------------- bounds
MaxTasks == 2
MaxDay == 1
DayLen == 2
MaxJobs == 2
MaxNotif == 2
MaxFails == 1
MaxToggles == 1

\* ------------------------------------------------------------- values
\* The time value of an Invalid Date.
NaN == -1
\* null / absent field.
Null == -2
\* A number no Date can hold (beyond 8.64e15 ms from the epoch).
BeyondRange == -3

TaskIds == 1..MaxTasks
Days == 0..MaxDay
Instants == 0..((MaxDay + 1) * DayLen - 1)
LastInstant == (MaxDay + 1) * DayLen - 1
\* Date.now() is never 0: the clock starts after the epoch.
FirstInstant == DayLen - 1

VARIABLES
    now,           \* Date.now()
    store,         \* the 'tasks' collection, by document id
    tasks,         \* StudentDashboard state: the last delivered snapshot
    subscribed,    \* the onSnapshot listener is attached (component mounted)
    snapPending,   \* a snapshot event is queued for the listener
    scanJobs,      \* in-flight async forEach callbacks of the overdue scan
    toggleJobs,    \* in-flight toggleTask calls
    taskToEdit,    \* the task the open edit modal was opened with
    editJob,       \* the in-flight handleUpdateTask write
    warnings,      \* 'warning' notifications created, per task
    successes,     \* 'success' notifications created, per task
    fails,         \* storage writes that threw so far
    warnedSinceReset, \* history: warnings created since the stored latch last went true -> false
    allTasks,      \* a fetched task list the overdue predicates are evaluated on
    overdueView,   \* the tasks each overdue predicate selects from allTasks
    rateInput,     \* a task list by its length and its number of completed tasks
    rateView,      \* the completion rates shown for rateInput
    graphView,     \* a day's count as ContributionGraph and PerformanceLineChart compute it
    colorView,     \* two cells of ContributionGraph with their colour levels
    scaleView,     \* PerformanceLineChart's buckets with their vertical scale
    students,      \* AdminDashboard state: the fetched user profiles
    exports,       \* the rows of the CSV files exported so far, by filter type
    creation,      \* handleCreateUser: the counter document, the auth accounts, the
                   \* 'users' collection, the calls in flight and the auth contexts
    setup,         \* ProfileSetup: the user's profile document, the effect runs, the
                   \* 'info' notifications
    assessment,    \* AssessmentModal: the user's assessments, the profile flag, the
                   \* submission in flight
    inbox,         \* the 'notifications' collection, the admin's fetched copy and
                   \* the markAsRead writes in flight
    inspection,    \* a selected student's task list and selectedStudentTasks of it
    overview,      \* AdminDashboard: what fetchData stored and what the views showed
    monthsView,    \* ContributionGraph: the months list computed for a current date
    appView,       \* AppContent: the auth state and the screen rendered for it
    passwordChange \* ChangePasswordModal: the form, the password and the profile flag

vars == <<now, store, tasks, subscribed, snapPending, scanJobs, toggleJobs,
          taskToEdit, editJob, warnings, successes, fails, warnedSinceReset,
          allTasks, overdueView, rateInput, rateView,
          graphView, colorView, scaleView, students, exports,
          creation, setup, assessment,
          inbox, inspection, overview, monthsView, appView, passwordChange>>

metricVars == <<allTasks, overdueView, rateInput, rateView>>
chartVars == <<graphView, colorView, scaleView>>
csvVars == <<students, exports>>
accountVars == <<creation, setup, assessment>>
viewVars == <<inbox, inspection, overview, monthsView, appView, passwordChange>>
otherVars == <<chartVars, csvVars, accountVars, viewVars>>
dashboardVars == <<now, store, tasks, subscribed, snapPending, scanJobs, toggleJobs,
                   taskToEdit, editJob, warnings, successes, fails, warnedSinceReset>>
notChartVars == <<dashboardVars, metricVars, csvVars, accountVars, viewVars>>

\* ------------------------------------------------------------- date-fns
\* startOfDay(date): the local midnight of the date's day; Invalid Date stays invalid.
StartOfDay(x) == IF x = NaN THEN NaN ELSE x - (x % DayLen)

\* Mutant: an Invalid Date compares like a very old date.
IsPast_InvalidIsOld(x) == x < now

\* isPast(date): +toDate(date) < Date.now(); every comparison with NaN is false.
IsPast(x) == x # NaN /\ x < now

\* isSameDay(a, b): +startOfDay(a) === +startOfDay(b); NaN equals nothing.
IsSameDay(a, b) == StartOfDay(a) # NaN /\ StartOfDay(b) # NaN /\ StartOfDay(a) = StartOfDay(b)

\* Mutant: "today" compared by instant instead of by calendar day.
IsToday_SameInstant(x) == x # NaN /\ x = now

\* isToday(date): isSameDay(date, Date.now()).
IsToday(x) == IsSameDay(x, now)

\* parseISO of a 'yyyy-MM-dd' string: the local midnight of that day.
ParseISO(d) == d * DayLen

\* The local calendar day of a valid instant (format(date, 'yyyy-MM-dd')).
DayOf(x) == x \div DayLen

\* ------------------------------------------------------------- records
NoTask == [exists |-> FALSE, dueDate |-> 0, completed |-> FALSE,
           completedAt |-> Null, overdueNotificationSent |-> FALSE]

\* The document handleAddTask creates.
NewTask(timestamp) == [exists |-> TRUE, dueDate |-> timestamp, completed |-> FALSE,
                       completedAt |-> Null, overdueNotificationSent |-> FALSE]

\* What the component reads of a task of its `tasks` state: whether it is
\* listed, its completed flag and its latch.
NoRendered == [exists |-> FALSE, completed |-> FALSE, overdueNotificationSent |-> FALSE]
Rendered(task) == [exists |-> task.exists, completed |-> task.completed,
                   overdueNotificationSent |-> task.overdueNotificationSent]

NoEdit == [id |-> 0, overdueNotificationSent |-> FALSE]
NoEditJob == [id |-> 0, dueDate |-> 0, overdueNotificationSent |-> FALSE]
IdleToggle == [id |-> 0, newStatus |-> FALSE, completedAt |-> Null, pc |-> "idle"]
NoScanJobs == [notify |-> 0, latch |-> 0]
ToggleSlots == 1..MaxToggles

\* ------------------------------------------------------------- overdue scan
\* isOverdue of the snapshot listener.
IsOverdue(task) ==
    ~task.completed /\ IsPast(StartOfDay(task.dueDate)) /\ ~IsToday(task.dueDate)

\* Mutant: the scan forgets to test the latch.
ShouldNotify_NoLatchTest(task) == task.exists /\ IsOverdue(task)

\* The scan's guard: isOverdue && !task.overdueNotificationSent.
ShouldNotify(task) == task.exists /\ IsOverdue(task) /\ ~task.overdueNotificationSent

NoView == [evaluated |-> FALSE, scan |-> {}, csv |-> {}, system |-> {}]
NoRates == [shown |-> FALSE, student |-> 0, system |-> 0, inspection |-> 0, csv |-> 0]
NoGraph == [shown |-> FALSE, tasks |-> <<>>, day |-> 0, graph |-> 0, chart |-> 0]
NoColors == [shown |-> FALSE, counts |-> <<0, 0>>, levels |-> <<0, 0>>]
NoScale == [shown |-> FALSE, counts |-> <<>>, maxVal |-> 0, heights |-> <<>>]

\* The charts before they render.
ChartsIdle ==
    /\ graphView = NoGraph
    /\ colorView = NoColors
    /\ scaleView = NoScale

FilterTypes == {"all", "active", "pending"}

\* Nothing was exported yet.
NoExports == [type \in FilterTypes |-> [made |-> FALSE, rows |-> <<>>]]

\* The admin dashboard's export before it is used.
CsvIdle ==
    /\ students = <<>>
    /\ exports = NoExports

MaxCalls == 2
MaxRuns == 3
MaxSubmits == 2

CallIds == 1..MaxCalls
RunIds == 1..MaxRuns

\* A handleCreateUser call that was not made yet.
NoId == [prefix |-> "", digits |-> <<>>]
NoCall == [pc |-> "idle", email |-> 0, role |-> "STUDENT", attempts |-> 0,
           read |-> [exists |-> FALSE, studentCount |-> 0], studentId |-> NoId]

\* The uid of the signed-in admin; Null is "nobody signed in".
AdminUid == 0

\* The data of the 'system/counters' document: missing, or its studentCount.
NoCounter == [exists |-> FALSE, studentCount |-> 0]

\* The project before any user is created: each admin is signed in on the
\* primary auth context of their browser; no SecondaryApp user.
CreationIdle(counterDoc) ==
    [counter |-> counterDoc,
     accounts |-> {},
     users |-> {},
     calls |-> [i \in CallIds |-> NoCall],
     issued |-> <<>>,
     primaryUser |-> [i \in CallIds |-> AdminUid],
     secondaryUser |-> [i \in CallIds |-> Null],
     fails |-> 0]

\* A user signed in for the first time: no profile document, no effect run.
NoProfile == [exists |-> FALSE, role |-> "none", writes |-> 0]
SetupIdle ==
    [user |-> Null,
     profile |-> NoProfile,
     runs |-> [i \in RunIds |-> "idle"],
     infos |-> 0,
     fails |-> 0]

\* A student who has not submitted the assessment.
AssessmentIdle ==
    [records |-> <<>>, assessmentCompleted |-> FALSE, pc |-> "idle",
     responses |-> 0, showSuccess |-> FALSE, infos |-> 0, submits |-> 0, fails |-> 0]

AccountsIdle ==
    /\ creation = CreationIdle(NoCounter)
    /\ setup = SetupIdle
    /\ assessment = AssessmentIdle

\* No notification stored, none fetched, no markAsRead in flight.
InboxIdle == [docs |-> <<>>, notifications |-> <<>>, writes |-> <<>>, fails |-> 0]
NoInspection == [shown |-> FALSE, uid |-> 0, tasks |-> <<>>, sorted |-> <<>>]
NoOverview == [fetched |-> <<>>, rendered |-> {}, recent |-> <<>>, filtered |-> <<>>,
               selected |-> <<>>]
NoMonths == [shown |-> FALSE, today |-> [year |-> 0, month |-> 0, date |-> 1],
             steps |-> 0, months |-> <<>>]
\* useAuth() before the auth state is known; nothing rendered.
NoUserProfile == [exists |-> FALSE, role |-> "none", requiresPasswordChange |-> {}]
NoScreen == [shown |-> FALSE, loading |-> TRUE, user |-> Null, loadingProfile |-> FALSE,
             userProfile |-> NoUserProfile, screen |-> "none"]
\* ChangePasswordModal as it opens for a user who must change the password.
NoPassword == [length |-> 0, text |-> 0]
NoPasswordChange ==
    [pc |-> "idle", newPassword |-> NoPassword, confirmPassword |-> NoPassword,
     error |-> FALSE, password |-> NoPassword, updated |-> FALSE,
     requiresPasswordChange |-> TRUE, profileWrites |-> 0, submits |-> 0, fails |-> 0]

ViewsIdle ==
    /\ inbox = InboxIdle
    /\ inspection = NoInspection
    /\ overview = NoOverview
    /\ monthsView = NoMonths
    /\ appView = NoScreen
    /\ passwordChange = NoPasswordChange

\* Every component but the student dashboard and the metrics, before it acts.
OthersIdle == ChartsIdle /\ CsvIdle /\ AccountsIdle /\ ViewsIdle

\* The dashboard after construction, the clock aside.
DashboardInit ==
    /\ store = [t \in TaskIds |-> NoTask]
    /\ tasks = [t \in TaskIds |-> NoRendered]
    /\ subscribed = TRUE
    /\ snapPending = TRUE
    /\ scanJobs = [t \in TaskIds |-> NoScanJobs]
    /\ toggleJobs = [i \in ToggleSlots |-> IdleToggle]
    /\ taskToEdit = NoEdit
    /\ editJob = NoEditJob
    /\ warnings = [t \in TaskIds |-> 0]
    /\ successes = [t \in TaskIds |-> 0]
    /\ fails = 0
    /\ warnedSinceReset = [t \in TaskIds |-> 0]

Init ==
    /\ now = FirstInstant
    /\ DashboardInit
    /\ allTasks = <<>>
    /\ overdueView = NoView
    /\ rateInput = [total |-> 0, completed |-> 0]
    /\ rateView = NoRates
    /\ OthersIdle

\* The clock advances.
Tick ==
    /\ now < LastInstant
    /\ now' = now + 1
    /\ UNCHANGED <<metricVars, otherVars>>
    /\ UNCHANGED <<store, tasks, subscribed, snapPending, scanJobs, toggleJobs,
                   taskToEdit, editJob, warnings, successes, fails, warnedSinceReset>>

\* useEffect cleanup: unsubscribe(); the component's state is dropped, writes
\* already in flight go on.
Unmount ==
    /\ subscribed
    /\ subscribed' = FALSE
    /\ snapPending' = FALSE
    /\ tasks' = [t \in TaskIds |-> NoRendered]
    /\ taskToEdit' = NoEdit
    /\ UNCHANGED <<metricVars, otherVars>>
    /\ UNCHANGED <<now, store, scanJobs, toggleJobs, editJob, warnings, successes,
                   fails, warnedSinceReset>>

\* useEffect: onSnapshot(q, ...) attaches the listener, which first gets the
\* current contents of the query.
Mount ==
    /\ ~subscribed
    /\ subscribed' = TRUE
    /\ snapPending' = TRUE
    /\ UNCHANGED <<metricVars, otherVars>>
    /\ UNCHANGED <<now, store, tasks, scanJobs, toggleJobs, taskToEdit, editJob,
                   warnings, successes, fails, warnedSinceReset>>

\* The size of the 'notifications' collection, and the notifications the
\* in-flight calls may still add to it.
RECURSIVE SumOver(_, _)
SumOver(f, S) == IF S = {} THEN 0
                 ELSE LET x == CHOOSE y \in S : TRUE IN f[x] + SumOver(f, S \ {x})
NotifCount == SumOver(warnings, TaskIds) + SumOver(successes, TaskIds)
ScansInFlight == SumOver([t \in TaskIds |-> scanJobs[t].notify + scanJobs[t].latch], TaskIds)
NotifsInFlight ==
    SumOver([t \in TaskIds |-> scanJobs[t].notify], TaskIds)
    + Cardinality({i \in ToggleSlots : toggleJobs[i].newStatus})

\* The tasks of the store a snapshot starts a scan callback for.
ToNotify == {t \in TaskIds : ShouldNotify(store[t])}

\* Room for the scan callbacks a snapshot would start.
ScanRoom ==
    /\ ScansInFlight + Cardinality(ToNotify) <= MaxJobs
    /\ NotifCount + NotifsInFlight + Cardinality(ToNotify) <= MaxNotif

\* Mutant: both writes of a callback are issued at once.
StartScan_BothWrites(jobs) == [notify |-> jobs.notify + 1, latch |-> jobs.latch + 1]

\* A scan callback enters its try block: only the addDoc is issued, the
\* updateDoc waits for it.
StartScan(jobs) == [jobs EXCEPT !.notify = @ + 1]

\* The onSnapshot callback: setTasks(fetchedTasks), then one async callback per
\* task that passes the scan's guard, each suspended at its addDoc.
Deliver ==
    /\ subscribed /\ snapPending
    /\ ScanRoom
    /\ snapPending' = FALSE
    /\ tasks' = [t \in TaskIds |-> Rendered(store[t])]
    /\ scanJobs' = [t \in TaskIds |->
          IF t \in ToNotify THEN StartScan(scanJobs[t]) ELSE scanJobs[t]]
    /\ UNCHANGED <<metricVars, otherVars>>
    /\ UNCHANGED <<now, store, subscribed, toggleJobs, taskToEdit, editJob,
                   warnings, successes, fails, warnedSinceReset>>

\* 1. Send Notification: the awaited addDoc of the 'warning' resolves.
ScanNotifyOk(t) ==
    /\ scanJobs[t].notify > 0
    /\ warnings' = [warnings EXCEPT ![t] = @ + 1]
    /\ warnedSinceReset' = [warnedSinceReset EXCEPT ![t] = @ + 1]
    /\ scanJobs' = [scanJobs EXCEPT ![t] = [notify |-> @.notify - 1, latch |-> @.latch + 1]]
    /\ UNCHANGED <<metricVars, otherVars>>
    /\ UNCHANGED <<now, store, tasks, subscribed, snapPending, toggleJobs,
                   taskToEdit, editJob, successes, fails>>

\* Mutant: the latch is written although the addDoc rejected.
ScanNotifyFail_StillLatches(t) ==
    /\ scanJobs[t].notify > 0
    /\ fails < MaxFails
    /\ fails' = fails + 1
    /\ scanJobs' = [scanJobs EXCEPT ![t] = [notify |-> @.notify - 1, latch |-> @.latch + 1]]
    /\ UNCHANGED <<metricVars, otherVars>>
    /\ UNCHANGED <<now, store, tasks, subscribed, snapPending, toggleJobs,
                   taskToEdit, editJob, warnings, successes, warnedSinceReset>>

\* The addDoc rejects: the catch logs it, the updateDoc is skipped.
ScanNotifyFail(t) ==
    /\ scanJobs[t].notify > 0
    /\ fails < MaxFails
    /\ fails' = fails + 1
    /\ scanJobs' = [scanJobs EXCEPT ![t].notify = @ - 1]
    /\ UNCHANGED <<metricVars, otherVars>>
    /\ UNCHANGED <<now, store, tasks, subscribed, snapPending, toggleJobs,
                   taskToEdit, editJob, warnings, successes, warnedSinceReset>>

\* 2. Mark task as notified: updateDoc(..., {overdueNotificationSent: true}).
ScanLatchOk(t) ==
    /\ scanJobs[t].latch > 0
    /\ store' = [store EXCEPT ![t].overdueNotificationSent = TRUE]
    /\ snapPending' = subscribed
    /\ scanJobs' = [scanJobs EXCEPT ![t].latch = @ - 1]
    /\ UNCHANGED <<metricVars, otherVars>>
    /\ UNCHANGED <<now, tasks, subscribed, toggleJobs, taskToEdit, editJob,
                   warnings, successes, fails, warnedSinceReset>>

\* The updateDoc rejects: the catch logs it.
ScanLatchFail(t) ==
    /\ scanJobs[t].latch > 0
    /\ fails < MaxFails
    /\ fails' = fails + 1
    /\ scanJobs' = [scanJobs EXCEPT ![t].latch = @ - 1]
    /\ UNCHANGED <<metricVars, otherVars>>
    /\ UNCHANGED <<now, store, tasks, subscribed, snapPending, toggleJobs,
                   taskToEdit, editJob, warnings, successes, warnedSinceReset>>

\* ------------------------------------------------------------- handleAddTask
\* The lowest document id not yet in the collection.
FreshId == CHOOSE t \in TaskIds : ~store[t].exists /\ \A u \in TaskIds : u < t => store[u].exists

\* handleAddTask with a valid date string: addDoc of the new task resolves.
HandleAddTask(d) ==
    /\ subscribed /\ taskToEdit = NoEdit
    /\ \E t \in TaskIds : ~store[t].exists
    /\ store' = [store EXCEPT ![FreshId] = NewTask(StartOfDay(ParseISO(d)))]
    /\ snapPending' = TRUE
    /\ UNCHANGED <<metricVars, otherVars>>
    /\ UNCHANGED <<now, tasks, subscribed, scanJobs, toggleJobs, taskToEdit, editJob,
                   warnings, successes, fails, warnedSinceReset>>

\* ------------------------------------------------------------- toggleTask
\* Mutant: completedAt is stamped whatever the new status.
TogglePayload_AlwaysStamped(task) ==
    [newStatus |-> ~task.completed, completedAt |-> now]

\* The arguments of toggleTask's updateDoc, evaluated at the call.
TogglePayload(task) ==
    [newStatus |-> ~task.completed,
     completedAt |-> IF ~task.completed THEN now ELSE Null]

FreeSlot == CHOOSE i \in ToggleSlots :
    toggleJobs[i].pc = "idle" /\ \A k \in ToggleSlots : k < i => toggleJobs[k].pc # "idle"

\* A click on the toggle button of rendered task t: toggleTask(task) runs up to
\* its awaited updateDoc.
ToggleTask(t) ==
    /\ subscribed /\ taskToEdit = NoEdit
    /\ tasks[t].exists
    /\ \E i \in ToggleSlots : toggleJobs[i].pc = "idle"
    /\ NotifCount + NotifsInFlight < MaxNotif
    /\ toggleJobs' = [toggleJobs EXCEPT ![FreeSlot] =
          [id |-> t,
           newStatus |-> TogglePayload(tasks[t]).newStatus,
           completedAt |-> TogglePayload(tasks[t]).completedAt,
           pc |-> "update"]]
    /\ UNCHANGED <<metricVars, otherVars>>
    /\ UNCHANGED <<now, store, tasks, subscribed, snapPending, scanJobs, taskToEdit,
                   editJob, warnings, successes, fails, warnedSinceReset>>

\* Mutant: the notification is sent whatever the new status.
AfterToggleUpdate_AlwaysNotify(job) == [job EXCEPT !.pc = "notify"]

\* What the toggle does once its updateDoc has resolved: `if (newStatus)` it
\* goes on to the addDoc of the notification.
AfterToggleUpdate(job) ==
    IF job.newStatus THEN [job EXCEPT !.pc = "notify"] ELSE IdleToggle

\* The awaited updateDoc({completed, completedAt}) resolves.
ToggleUpdateOk(i) ==
    /\ toggleJobs[i].pc = "update"
    /\ store' = [store EXCEPT ![toggleJobs[i].id] =
          [@ EXCEPT !.completed = toggleJobs[i].newStatus,
                    !.completedAt = toggleJobs[i].completedAt]]
    /\ snapPending' = subscribed
    /\ toggleJobs' = [toggleJobs EXCEPT ![i] = AfterToggleUpdate(@)]
    /\ UNCHANGED <<metricVars, otherVars>>
    /\ UNCHANGED <<now, tasks, subscribed, scanJobs, taskToEdit, editJob, warnings,
                   successes, fails, warnedSinceReset>>

\* The updateDoc rejects: the catch logs it, nothing else is written.
ToggleUpdateFail(i) ==
    /\ toggleJobs[i].pc = "update"
    /\ fails < MaxFails
    /\ fails' = fails + 1
    /\ toggleJobs' = [toggleJobs EXCEPT ![i] = IdleToggle]
    /\ UNCHANGED <<metricVars, otherVars>>
    /\ UNCHANGED <<now, store, tasks, subscribed, snapPending, scanJobs, taskToEdit,
                   editJob, warnings, successes, warnedSinceReset>>

\* The awaited addDoc of the 'success' notification resolves.
ToggleNotifyOk(i) ==
    /\ toggleJobs[i].pc = "notify"
    /\ successes' = [successes EXCEPT ![toggleJobs[i].id] = @ + 1]
    /\ toggleJobs' = [toggleJobs EXCEPT ![i] = IdleToggle]
    /\ UNCHANGED <<metricVars, otherVars>>
    /\ UNCHANGED <<now, store, tasks, subscribed, snapPending, scanJobs, taskToEdit,
                   editJob, warnings, fails, warnedSinceReset>>

\* The addDoc rejects: the catch logs it.
ToggleNotifyFail(i) ==
    /\ toggleJobs[i].pc = "notify"
    /\ fails < MaxFails
    /\ fails' = fails + 1
    /\ toggleJobs' = [toggleJobs EXCEPT ![i] = IdleToggle]
    /\ UNCHANGED <<metricVars, otherVars>>
    /\ UNCHANGED <<now, store, tasks, subscribed, snapPending, scanJobs, taskToEdit,
                   editJob, warnings, successes, warnedSinceReset>>

\* ------------------------------------------------------------- edit
\* openEditModal(task) on a task of the Up Next list: taskToEdit is the
\* rendered copy (its id and latch are what handleUpdateTask reads of it).
OpenEditModal(t) ==
    /\ subscribed /\ taskToEdit = NoEdit /\ editJob = NoEditJob
    /\ tasks[t].exists /\ ~tasks[t].completed
    /\ taskToEdit' = [id |-> t, overdueNotificationSent |-> tasks[t].overdueNotificationSent]
    /\ UNCHANGED <<metricVars, otherVars>>
    /\ UNCHANGED <<now, store, tasks, subscribed, snapPending, scanJobs, toggleJobs,
                   editJob, warnings, successes, fails, warnedSinceReset>>

\* Cancel / X / click on the backdrop: setEditModalOpen(false).
CloseEditModal ==
    /\ taskToEdit # NoEdit /\ editJob = NoEditJob
    /\ taskToEdit' = NoEdit
    /\ UNCHANGED <<metricVars, otherVars>>
    /\ UNCHANGED <<now, store, tasks, subscribed, snapPending, scanJobs, toggleJobs,
                   editJob, warnings, successes, fails, warnedSinceReset>>

\* isNowFuture = !isPast(timestamp) || isToday(timestamp)
IsNowFuture(timestamp) == ~IsPast(timestamp) \/ IsToday(timestamp)

\* The overdueNotificationSent value handleUpdateTask writes.
EditLatch(timestamp, edited) ==
    IF IsNowFuture(timestamp) THEN FALSE ELSE edited.overdueNotificationSent

\* handleUpdateTask with date string d in the form: the updateDoc arguments are
\* evaluated and the write is awaited.
HandleUpdateTask(d) ==
    /\ taskToEdit # NoEdit /\ editJob = NoEditJob
    /\ editJob' = [id |-> taskToEdit.id,
                   dueDate |-> StartOfDay(ParseISO(d)),
                   overdueNotificationSent |-> EditLatch(StartOfDay(ParseISO(d)), taskToEdit)]
    /\ UNCHANGED <<metricVars, otherVars>>
    /\ UNCHANGED <<now, store, tasks, subscribed, snapPending, scanJobs, toggleJobs,
                   taskToEdit, warnings, successes, fails, warnedSinceReset>>

\* The awaited updateDoc resolves; setEditModalOpen(false); setTaskToEdit(null).
EditWriteOk ==
    /\ editJob # NoEditJob
    /\ store' = [store EXCEPT ![editJob.id] =
          [@ EXCEPT !.dueDate = editJob.dueDate,
                    !.overdueNotificationSent = editJob.overdueNotificationSent]]
    /\ warnedSinceReset' = [warnedSinceReset EXCEPT ![editJob.id] =
          IF store[editJob.id].overdueNotificationSent /\ ~editJob.overdueNotificationSent
          THEN 0 ELSE @]
    /\ snapPending' = subscribed
    /\ taskToEdit' = NoEdit
    /\ editJob' = NoEditJob
    /\ UNCHANGED <<metricVars, otherVars>>
    /\ UNCHANGED <<now, tasks, subscribed, scanJobs, toggleJobs, warnings, successes,
                   fails>>

\* The updateDoc rejects: alert("Failed to update task."), the modal stays open.
EditWriteFail ==
    /\ editJob # NoEditJob
    /\ fails < MaxFails
    /\ fails' = fails + 1
    /\ editJob' = NoEditJob
    /\ UNCHANGED <<metricVars, otherVars>>
    /\ UNCHANGED <<now, store, tasks, subscribed, snapPending, scanJobs, toggleJobs,
                   taskToEdit, warnings, successes, warnedSinceReset>>

Next ==
    \/ Tick
    \/ Unmount
    \/ Mount
    \/ Deliver
    \/ \E t \in TaskIds : ScanNotifyOk(t)
    \/ \E t \in TaskIds : ScanNotifyFail(t)
    \/ \E t \in TaskIds : ScanLatchOk(t)
    \/ \E t \in TaskIds : ScanLatchFail(t)
    \/ \E d \in Days : HandleAddTask(d)
    \/ \E t \in TaskIds : ToggleTask(t)
    \/ \E i \in ToggleSlots : ToggleUpdateOk(i)
    \/ \E i \in ToggleSlots : ToggleUpdateFail(i)
    \/ \E i \in ToggleSlots : ToggleNotifyOk(i)
    \/ \E i \in ToggleSlots : ToggleNotifyFail(i)
    \/ \E t \in TaskIds : OpenEditModal(t)
    \/ CloseEditModal
    \/ \E d \in Days : HandleUpdateTask(d)
    \/ EditWriteOk
    \/ EditWriteFail

Spec == Init /\ [][Next]_vars

\* The overdue scan and what feeds it: the clock, the listener's lifetime, new
\* tasks, snapshots, the scan's two writes, and the completion toggle.
ScanNext ==
    \/ Tick
    \/ Unmount
    \/ Mount
    \/ Deliver
    \/ \E t \in TaskIds : ScanNotifyOk(t)
    \/ \E t \in TaskIds : ScanNotifyFail(t)
    \/ \E t \in TaskIds : ScanLatchOk(t)
    \/ \E t \in TaskIds : ScanLatchFail(t)
    \/ \E d \in Days : HandleAddTask(d)
    \/ \E t \in TaskIds : ToggleTask(t)
    \/ \E i \in ToggleSlots : ToggleUpdateOk(i)
    \/ \E i \in ToggleSlots : ToggleUpdateFail(i)
    \/ \E i \in ToggleSlots : ToggleNotifyOk(i)
    \/ \E i \in ToggleSlots : ToggleNotifyFail(i)

\* An awaited write settles; a queued snapshot reaches the attached listener;
\* a write that is retried again and again eventually succeeds.
Fairness ==
    /\ WF_vars(Deliver)
    /\ \A t \in TaskIds : WF_vars(ScanNotifyOk(t) \/ ScanNotifyFail(t))
    /\ \A t \in TaskIds : WF_vars(ScanLatchOk(t) \/ ScanLatchFail(t))
    /\ \A t \in TaskIds : SF_vars(ScanNotifyOk(t))
    /\ \A t \in TaskIds : SF_vars(ScanLatchOk(t))

FairSpec == Init /\ [][ScanNext]_vars /\ Fairness

\* ------------------------------------------------------------- overdue predicates
MaxList == 2

\* new Date(number): NaN and a number out of range give an Invalid Date.
NewDate(x) == IF x = NaN \/ x = BeyondRange THEN NaN ELSE x

\* The filter of handleExportCSV's `overdue`.
IsOverdueCsv(t) ==
    LET d == NewDate(t.dueDate)
    IN  d # NaN /\ ~t.completed /\ IsPast(StartOfDay(d)) /\ ~IsToday(d)

\* The filter of systemOverdueTasks.
IsOverdueAdmin(t) ==
    LET d == NewDate(t.dueDate)
    IN  d # NaN /\ ~t.completed /\ IsPast(StartOfDay(d)) /\ ~IsToday(d)

\* A task as the overdue predicates read it; dueDate may be no valid instant.
ListedTasks == [dueDate : Instants \cup {NaN}, completed : BOOLEAN]
TaskLists == UNION {[1..n -> ListedTasks] : n \in 0..MaxList}

ClassifyInit ==
    /\ now \in FirstInstant..LastInstant
    /\ DashboardInit
    /\ allTasks \in TaskLists
    /\ overdueView = NoView
    /\ rateInput = [total |-> 0, completed |-> 0]
    /\ rateView = NoRates
    /\ OthersIdle

\* The three overdue filters run over the list: the student scan's isOverdue,
\* the CSV export's and the system-wide stats'.
EvaluateOverdue ==
    /\ ~overdueView.evaluated
    /\ overdueView' = [evaluated |-> TRUE,
                       scan |-> {i \in DOMAIN allTasks : IsOverdue(allTasks[i])},
                       csv |-> {i \in DOMAIN allTasks : IsOverdueCsv(allTasks[i])},
                       system |-> {i \in DOMAIN allTasks : IsOverdueAdmin(allTasks[i])}]
    /\ UNCHANGED dashboardVars
    /\ UNCHANGED <<allTasks, rateInput, rateView>>
    /\ UNCHANGED otherVars

ClassifyNext == EvaluateOverdue

ClassifySpec == ClassifyInit /\ [][ClassifyNext]_vars

\* ------------------------------------------------------------- completion rate
MaxTotal == 40

\* The significand width of a JavaScript Number (IEEE 754 binary64).
MantissaBits == 53

RECURSIVE Pow2(_)
Pow2(n) == IF n = 0 THEN 1 ELSE 2 * Pow2(n - 1)

\* A positive double is a significand of MantissaBits bits times 2^e.  The
\* significand is held in three limbs, hi * 2^34 + mid * 2^16 + lo, with
\* 2^18 <= hi < 2^19 (the leading bit is set), mid < 2^18 and lo < 2^16, so
\* that every intermediate value fits a 32-bit integer.  Zero has hi = 0.
HiBits == MantissaBits - 34
MidBase == Pow2(18)
LoBase == Pow2(16)
HiOne == Pow2(HiBits - 1)
FloatZero == [hi |-> 0, mid |-> 0, lo |-> 0, e |-> 0]

\* Round to nearest, ties to even: the kept significand, the first dropped
\* bit and whether any later dropped bit is set.
RoundNearestEven(hi, mid, lo, guard, sticky, e) ==
    IF guard = 1 /\ (sticky \/ lo % 2 = 1)
    THEN LET lo1 == (lo + 1) % LoBase
             mid1 == (mid + (lo + 1) \div LoBase) % MidBase
             hi1 == hi + (mid + (lo + 1) \div LoBase) \div MidBase
         IN  IF hi1 = 2 * HiOne
             THEN [hi |-> HiOne, mid |-> 0, lo |-> 0, e |-> e + 1]
             ELSE [hi |-> hi1, mid |-> mid1, lo |-> lo1, e |-> e]
    ELSE [hi |-> hi, mid |-> mid, lo |-> lo, e |-> e]

\* The least k with c * 2^k >= t.
RECURSIVE NormShift(_, _)
NormShift(c, t) == IF c >= t THEN 0 ELSE 1 + NormShift(2 * c, t)

\* c / t in double arithmetic, for integers 0 <= c <= t, 0 < t < 2^12: long
\* division of the normalised quotient c * 2^k / t in [1, 2), 18 + 18 + 16
\* fraction bits, then the guard bit and the sticky remainder.
FloatDiv(c, t) ==
    IF c = 0 THEN FloatZero
    ELSE LET k == NormShift(c, t)
             r0 == c * Pow2(k) - t
             d1 == (r0 * MidBase) \div t
             r1 == (r0 * MidBase) % t
             d2 == (r1 * MidBase) \div t
             r2 == (r1 * MidBase) % t
             d3 == (r2 * LoBase) \div t
             r3 == (r2 * LoBase) % t
             guard == (2 * r3) \div t
             r4 == (2 * r3) % t
         IN  RoundNearestEven(HiOne + d1, d2, d3, guard, r4 # 0,
                              0 - k - (MantissaBits - 1))

\* x * k in double arithmetic, for an integer 64 <= k < 128: the exact product
\* has 6 or 7 bits more than the significand holds; they are rounded away.
FloatMul(x, k) ==
    IF x.hi = 0 THEN FloatZero
    ELSE LET pl == x.lo * k
             pm == x.mid * k + pl \div LoBase
             ph == x.hi * k + pm \div MidBase
             l == pl % LoBase
             m == pm % MidBase
             s == IF ph >= Pow2(HiBits + 6) THEN 7 ELSE 6
             cut == Pow2(s)
         IN  RoundNearestEven(ph \div cut,
                              m \div cut + (ph % cut) * (MidBase \div cut),
                              l \div cut + (m % cut) * (LoBase \div cut),
                              (l \div (cut \div 2)) % 2,
                              l % (cut \div 2) # 0,
                              x.e + s)

\* Math.round(x) for 0 <= x < 2^18: the integer part plus the first fraction
\* bit (halves go up).  n is the number of integer bits of x.
MathRound(x) ==
    IF x.hi = 0 THEN 0
    ELSE LET n == MantissaBits + x.e
         IN  IF n < 0 THEN 0
             ELSE (x.hi \div Pow2(HiBits - n)) + ((x.hi \div Pow2(HiBits - n - 1)) % 2)

\* Math.round((completed / total) * 100)
RoundedPercent(completed, total) == MathRound(FloatMul(FloatDiv(completed, total), 100))

\* StudentDashboard: totalTasks > 0 ? Math.round((completedTasks / totalTasks) * 100) : 0
CompletionRate(completed, total) ==
    IF total > 0 THEN RoundedPercent(completed, total) ELSE 0

\* AdminDashboard: systemTotalTasks ? Math.round(...) : 0
SystemCompletionRate(completed, total) ==
    IF total # 0 THEN RoundedPercent(completed, total) ELSE 0

\* Inspection modal: selectedStudentTasks.length ? Math.round(...) : 0
InspectionRate(completed, total) ==
    IF total # 0 THEN RoundedPercent(completed, total) ELSE 0

\* handleExportCSV: rate = total ? Math.round((completed/total)*100) : 0
CsvRate(completed, total) ==
    IF total # 0 THEN RoundedPercent(completed, total) ELSE 0

RateInit ==
    /\ now = FirstInstant
    /\ DashboardInit
    /\ allTasks = <<>>
    /\ overdueView = NoView
    /\ rateInput \in {[total |-> t, completed |-> c] : t \in 0..MaxTotal, c \in 0..MaxTotal}
    /\ rateInput.completed <= rateInput.total
    /\ rateView = NoRates
    /\ OthersIdle

\* The four places that show a completion rate render it for the list.
RenderRates ==
    /\ ~rateView.shown
    /\ rateView' = [shown |-> TRUE,
                    student |-> CompletionRate(rateInput.completed, rateInput.total),
                    system |-> SystemCompletionRate(rateInput.completed, rateInput.total),
                    inspection |-> InspectionRate(rateInput.completed, rateInput.total),
                    csv |-> CsvRate(rateInput.completed, rateInput.total)]
    /\ UNCHANGED dashboardVars
    /\ UNCHANGED <<allTasks, overdueView, rateInput>>
    /\ UNCHANGED otherVars

RateNext == RenderRates

RateSpec == RateInit /\ [][RateNext]_vars

\* ------------------------------------------------------------- charts
MaxCount == 10
MaxBuckets == 3
MaxBucketCount == 7

\* Mutant: only a missing value is falsy.
Truthy_ZeroCounts(x) == x # Null

\* The truthiness of a number or missing value: 0, NaN and null are falsy.
Truthy(x) == x # 0 /\ x # NaN /\ x # Null

\* format(date, 'yyyy-MM-dd'), the key of a valid date's local calendar day.
FormatDayKey(x) == [ymd |-> x \div DayLen]

\* map.set(dateKey, (map.get(dateKey) || 0) + 1)
Bump(map, key) ==
    IF key \in DOMAIN map
    THEN [map EXCEPT ![key] = @ + 1]
    ELSE [k \in DOMAIN map \cup {key} |-> IF k = key THEN 1 ELSE map[k]]

\* ContributionGraph's `contributions`: tasks.forEach over a new Map.
RECURSIVE Contributions(_)
Contributions(list) ==
    IF list = <<>> THEN [k \in {} |-> 0]
    ELSE LET map == Contributions(SubSeq(list, 1, Len(list) - 1))
             task == list[Len(list)]
         IN  IF task.completed /\ Truthy(task.completedAt)
             THEN LET d == NewDate(task.completedAt)
                  IN  IF d # NaN THEN Bump(map, FormatDayKey(d)) ELSE map
             ELSE map

\* The count of a cell of the graph: contributions.get(dateKey) || 0.
CellCount(list, day) ==
    LET map == Contributions(list)
        dateKey == FormatDayKey(day)
    IN  IF dateKey \in DOMAIN map THEN map[dateKey] ELSE 0

\* PerformanceLineChart's completedCount of a day: tasks.filter(...).length.
CompletedCount(list, day) ==
    Cardinality({i \in DOMAIN list :
        /\ ~(~list[i].completed \/ ~Truthy(list[i].completedAt))
        /\ LET d == NewDate(list[i].completedAt)
           IN  d # NaN /\ IsSameDay(d, day)})

\* A task as the charts read it.
ChartTasks == [completed : BOOLEAN,
               completedAt : Instants \cup {NaN, Null, BeyondRange}]
ChartTaskLists == UNION {[1..n -> ChartTasks] : n \in 0..MaxList}

\* Both charts render one day of the same tasks.
RenderDay ==
    /\ \E list \in ChartTaskLists, d \in Days :
         LET day == ParseISO(d)
         IN  graphView' = [shown |-> TRUE, tasks |-> list, day |-> day,
                           graph |-> CellCount(list, day),
                           chart |-> CompletedCount(list, day)]
    /\ UNCHANGED <<colorView, scaleView>>
    /\ UNCHANGED notChartVars

\* Mutant: the third level ends at 2.
GetColor_ThirdLevelEndsAtTwo(count) ==
    IF count = 0 THEN 0
    ELSE IF count = 1 THEN 1
    ELSE IF count <= 2 THEN 2
    ELSE IF count <= 5 THEN 3
    ELSE 4

\* getColor: the five classes, numbered from the lightest.
GetColor(count) ==
    IF count = 0 THEN 0
    ELSE IF count = 1 THEN 1
    ELSE IF count <= 3 THEN 2
    ELSE IF count <= 5 THEN 3
    ELSE 4

\* Two cells of the graph are coloured.
PaintCells ==
    /\ \E c1 \in 0..MaxCount, c2 \in 0..MaxCount :
         colorView' = [shown |-> TRUE, counts |-> <<c1, c2>>,
                       levels |-> <<GetColor(c1), GetColor(c2)>>]
    /\ UNCHANGED <<graphView, scaleView>>
    /\ UNCHANGED notChartVars

\* Math.max over a non-empty argument list.
MathMax(args) == CHOOSE m \in args : \A x \in args : x <= m

\* Mutant: a minimum ceiling of 1.
MaxVal_CeilingOne(counts) == MathMax({counts[i] : i \in DOMAIN counts} \cup {1})

\* maxVal = Math.max(...dataPoints.map(d => d.count), 5)
MaxVal(counts) == MathMax({counts[i] : i \in DOMAIN counts} \cup {5})

\* d.count / maxVal of a point, a double.
PointHeight(count, maxVal) == FloatDiv(count, maxVal)

\* The counts of the days of the interval; an interval has at least one day.
BucketLists == UNION {[1..n -> 0..MaxBucketCount] : n \in 1..MaxBuckets}

\* The line chart scales its points.
ScalePoints ==
    /\ \E counts \in BucketLists :
         LET maxVal == MaxVal(counts)
         IN  scaleView' = [shown |-> TRUE, counts |-> counts, maxVal |-> maxVal,
                           heights |-> [i \in DOMAIN counts |->
                                           PointHeight(counts[i], maxVal)]]
    /\ UNCHANGED <<graphView, colorView>>
    /\ UNCHANGED notChartVars

\* Each chart is a component of its own, rendered from its props alone.
GraphNext == RenderDay
GraphSpec == Init /\ [][GraphNext]_vars

ColorNext == PaintCells
ColorSpec == Init /\ [][ColorNext]_vars

ScaleNext == ScalePoints
ScaleSpec == Init /\ [][ScaleNext]_vars

\* ------------------------------------------------------------- CSV export
MaxStudents == 2
MaxRowTasks == 10

UserIds == 1..MaxStudents

\* Array.prototype.filter: the elements of a list a predicate keeps, in order.
RECURSIVE FilterSeq(_, _)
FilterSeq(list, keep) ==
    IF list = <<>> THEN <<>>
    ELSE LET rest == FilterSeq(Tail(list), {i - 1 : i \in keep \ {1}})
         IN  IF 1 \in keep THEN <<Head(list)>> \o rest ELSE rest

\* The tasks of student s: allTasks.filter(t => t.userId === s.uid).
StudentTasks(s) ==
    FilterSeq(allTasks, {i \in DOMAIN allTasks : allTasks[i].userId = s.uid})

\* Mutant: pending leaves out the overdue tasks.
CsvRow_PendingWithoutOverdue(s) ==
    LET sTasks == StudentTasks(s)
        total == Len(sTasks)
        completed == Len(FilterSeq(sTasks, {i \in DOMAIN sTasks : sTasks[i].completed}))
        overdue == Len(FilterSeq(sTasks, {i \in DOMAIN sTasks : IsOverdueCsv(sTasks[i])}))
    IN  [uid |-> s.uid, total |-> total, completed |-> completed,
         pending |-> total - completed - overdue, overdue |-> overdue,
         rate |-> CsvRate(completed, total)]

\* The row of student s: total, completed, pending, overdue and rate.
CsvRow(s) ==
    LET sTasks == StudentTasks(s)
        total == Len(sTasks)
        completed == Len(FilterSeq(sTasks, {i \in DOMAIN sTasks : sTasks[i].completed}))
        overdue == Len(FilterSeq(sTasks, {i \in DOMAIN sTasks : IsOverdueCsv(sTasks[i])}))
        pending == total - completed
    IN  [uid |-> s.uid, total |-> total, completed |-> completed,
         pending |-> pending, overdue |-> overdue,
         rate |-> CsvRate(completed, total)]

\* Mutant: every filter type exports the same students.
FilteredData_IgnoresType(type) ==
    FilterSeq(students, {i \in DOMAIN students : students[i].role = "STUDENT"})

\* filteredData: the students of role STUDENT, then the filter of the type.
\* The optional requiresPasswordChange is {} when missing, else {TRUE} or
\* {FALSE}; a missing one is falsy.
FilteredData(type) ==
    LET data == FilterSeq(students, {i \in DOMAIN students : students[i].role = "STUDENT"})
    IN  IF type = "active"
        THEN FilterSeq(data, {i \in DOMAIN data : ~(TRUE \in data[i].requiresPasswordChange)})
        ELSE IF type = "pending"
        THEN FilterSeq(data, {i \in DOMAIN data : TRUE \in data[i].requiresPasswordChange})
        ELSE data

\* handleExportCSV(type): one row per student of filteredData.
HandleExportCSV(type) ==
    /\ ~exports[type].made
    /\ exports' = [exports EXCEPT ![type] =
          LET data == FilteredData(type)
          IN  [made |-> TRUE, rows |-> [i \in DOMAIN data |-> CsvRow(data[i])]]]
    /\ UNCHANGED <<dashboardVars, metricVars, viewVars, chartVars, students, accountVars>>

\* A user profile as the export reads it.
Profiles == [uid : UserIds, role : {"STUDENT", "ADMIN"},
             requiresPasswordChange : {{}, {TRUE}, {FALSE}}]

\* The fetched profiles: one per user id.
StudentLists ==
    UNION {{list \in [1..n -> Profiles] : \A i \in 1..n : list[i].uid = i} :
           n \in 0..MaxStudents}

\* A task as the export reads it.
OwnedTasks == [userId : UserIds, dueDate : {0, LastInstant, NaN}, completed : BOOLEAN]
OwnedTaskLists == UNION {[1..n -> OwnedTasks] : n \in 0..MaxList}

\* n copies of a task.
Copies(n, task) == [i \in 1..n |-> task]

\* The admin dashboard with its students and all tasks fetched.
ExportInit ==
    /\ now \in FirstInstant..LastInstant
    /\ DashboardInit
    /\ allTasks \in OwnedTaskLists
    /\ overdueView = NoView
    /\ rateInput = [total |-> 0, completed |-> 0]
    /\ rateView = NoRates
    /\ ChartsIdle
    /\ ViewsIdle
    /\ AccountsIdle
    /\ students \in StudentLists
    /\ exports = NoExports

ExportNext == \E type \in FilterTypes : HandleExportCSV(type)

ExportSpec == ExportInit /\ [][ExportNext]_vars

\* One student with up to MaxRowTasks tasks: completed ones, incomplete ones
\* due on the first day, today or at no valid date; the clock is on the last day.
RowInit ==
    /\ now = LastInstant
    /\ DashboardInit
    /\ \E done \in 0..MaxRowTasks, old \in 0..MaxRowTasks,
          open \in 0..MaxRowTasks, bad \in 0..MaxRowTasks :
          /\ done + old + open + bad <= MaxRowTasks
          /\ allTasks = Copies(old, [userId |-> 1, dueDate |-> 0, completed |-> FALSE])
                        \o Copies(done, [userId |-> 1, dueDate |-> 0, completed |-> TRUE])
                        \o Copies(bad, [userId |-> 1, dueDate |-> NaN, completed |-> FALSE])
                        \o Copies(open, [userId |-> 1, dueDate |-> now, completed |-> FALSE])
    /\ overdueView = NoView
    /\ rateInput = [total |-> 0, completed |-> 0]
    /\ rateView = NoRates
    /\ ChartsIdle
    /\ ViewsIdle
    /\ AccountsIdle
    /\ students = <<[uid |-> 1, role |-> "STUDENT", requiresPasswordChange |-> {FALSE}]>>
    /\ exports = NoExports

RowSpec == RowInit /\ [][ExportNext]_vars

\* ------------------------------------------------------------- handleCreateUser
MaxEmails == 2

\* The new users' email addresses; the uid of the account of email e is e.
Emails == 1..MaxEmails

\* newCount.toString(): the decimal digits of a positive integer.
RECURSIVE Digits(_)
Digits(n) == IF n < 10 THEN <<n>> ELSE Digits(n \div 10) \o <<n % 10>>

\* String.prototype.padStart(len, fill)
PadStart(str, len, fill) ==
    IF Len(str) >= len THEN str ELSE [i \in 1..(len - Len(str)) |-> fill] \o str

\* `DSV${newCount.toString().padStart(4, '0')}`
StudentIdOf(newCount) == [prefix |-> "DSV", digits |-> PadStart(Digits(newCount), 4, 0)]

\* newCount of the transaction function, from the document it read.
NewCount(counterDoc) ==
    IF counterDoc.exists THEN counterDoc.studentCount + 1 ELSE 1

\* Mutant: the commit does not check the document it read.
ReadStillCurrent_Unchecked(read) == TRUE

\* A transaction commits only if the document it read was not written since.
ReadStillCurrent(read) == creation.counter = read

\* Mutant: the new account signs in on the primary auth context.
SignedIn_OnPrimary(i, uid) ==
    [primaryUser |-> [creation.primaryUser EXCEPT ![i] = uid],
     secondaryUser |-> creation.secondaryUser]

\* secondaryAuth.createUserWithEmailAndPassword signs the new user in on the
\* SecondaryApp's auth context of the browser of call i.
SignedIn(i, uid) ==
    [primaryUser |-> creation.primaryUser,
     secondaryUser |-> [creation.secondaryUser EXCEPT ![i] = uid]]

\* An admin submits the Add User form with a valid email and password.
StartCreateUser(i, email, role) ==
    /\ creation.calls[i].pc = "idle"
    /\ creation' = [creation EXCEPT !.calls[i] =
          [NoCall EXCEPT !.pc = "get", !.email = email, !.role = role]]
    /\ UNCHANGED <<dashboardVars, metricVars, viewVars, chartVars, csvVars, setup, assessment>>

\* transaction.get(counterRef)
TxnGet(i) ==
    /\ creation.calls[i].pc = "get"
    /\ creation' = [creation EXCEPT !.calls[i].read = creation.counter,
                                    !.calls[i].attempts = @ + 1,
                                    !.calls[i].pc = "commit"]
    /\ UNCHANGED <<dashboardVars, metricVars, viewVars, chartVars, csvVars, setup, assessment>>

\* The transaction function returns and the transaction commits its set, or
\* finds the document changed and runs the function again.
TxnCommit(i) ==
    /\ creation.calls[i].pc = "commit"
    /\ LET read == creation.calls[i].read
           newCount == NewCount(read)
       IN  IF ReadStillCurrent(read)
           THEN creation' = [creation EXCEPT
                   !.counter = [exists |-> TRUE, studentCount |-> newCount],
                   !.issued = Append(@, [call |-> i, count |-> newCount,
                                         studentId |-> StudentIdOf(newCount)]),
                   !.calls[i].studentId = StudentIdOf(newCount),
                   !.calls[i].pc = "auth"]
           ELSE creation' = [creation EXCEPT !.calls[i].pc = "get"]
    /\ UNCHANGED <<dashboardVars, metricVars, viewVars, chartVars, csvVars, setup, assessment>>

\* runTransaction rejects; the catch reports the error.
TxnFail(i) ==
    /\ creation.calls[i].pc \in {"get", "commit"}
    /\ creation.fails < MaxFails
    /\ creation' = [creation EXCEPT !.calls[i].pc = "failed", !.fails = @ + 1]
    /\ UNCHANGED <<dashboardVars, metricVars, viewVars, chartVars, csvVars, setup, assessment>>

\* createUserWithEmailAndPassword resolves: the account exists and is signed in.
AuthCreateOk(i) ==
    /\ creation.calls[i].pc = "auth"
    /\ creation.calls[i].email \notin creation.accounts
    /\ creation' = [creation EXCEPT
          !.accounts = @ \cup {creation.calls[i].email},
          !.primaryUser = SignedIn(i, creation.calls[i].email).primaryUser,
          !.secondaryUser = SignedIn(i, creation.calls[i].email).secondaryUser,
          !.calls[i].pc = "profile"]
    /\ UNCHANGED <<dashboardVars, metricVars, viewVars, chartVars, csvVars, setup, assessment>>

\* createUserWithEmailAndPassword rejects with email-already-in-use.
AuthCreateFail(i) ==
    /\ creation.calls[i].pc = "auth"
    /\ creation.calls[i].email \in creation.accounts
    /\ creation' = [creation EXCEPT !.calls[i].pc = "failed"]
    /\ UNCHANGED <<dashboardVars, metricVars, viewVars, chartVars, csvVars, setup, assessment>>

\* setDoc(doc(db, 'users', newUser.uid), {...}) resolves; a profile of role
\* ADMIN carries no student ID.
ProfileWriteOk(i) ==
    /\ creation.calls[i].pc = "profile"
    /\ creation' = [creation EXCEPT
          !.users = @ \cup {[uid |-> creation.calls[i].email,
                             role |-> creation.calls[i].role,
                             studentId |-> IF creation.calls[i].role = "STUDENT"
                                           THEN creation.calls[i].studentId
                                           ELSE NoId]},
          !.calls[i].pc = "signout"]
    /\ UNCHANGED <<dashboardVars, metricVars, viewVars, chartVars, csvVars, setup, assessment>>

\* setDoc rejects; the catch reports the error, signOut is skipped.
ProfileWriteFail(i) ==
    /\ creation.calls[i].pc = "profile"
    /\ creation.fails < MaxFails
    /\ creation' = [creation EXCEPT !.calls[i].pc = "failed", !.fails = @ + 1]
    /\ UNCHANGED <<dashboardVars, metricVars, viewVars, chartVars, csvVars, setup, assessment>>

\* secondaryAuth.signOut() resolves; the success message is shown.
SignOutSecondary(i) ==
    /\ creation.calls[i].pc = "signout"
    /\ creation' = [creation EXCEPT !.secondaryUser[i] = Null, !.calls[i].pc = "done"]
    /\ UNCHANGED <<dashboardVars, metricVars, viewVars, chartVars, csvVars, setup, assessment>>

\* The project with a counter document that is missing, new, at 41 or about
\* to need a fifth digit.
CreationInit ==
    /\ now = FirstInstant
    /\ DashboardInit
    /\ allTasks = <<>>
    /\ overdueView = NoView
    /\ rateInput = [total |-> 0, completed |-> 0]
    /\ rateView = NoRates
    /\ ChartsIdle
    /\ ViewsIdle
    /\ CsvIdle
    /\ \E counterDoc \in {NoCounter} \cup [exists : {TRUE}, studentCount : {0, 41, 9998}] :
          creation = CreationIdle(counterDoc)
    /\ setup = SetupIdle
    /\ assessment = AssessmentIdle

CreationNext ==
    \/ \E i \in CallIds, email \in Emails, role \in {"STUDENT", "ADMIN"} :
          StartCreateUser(i, email, role)
    \/ \E i \in CallIds : TxnGet(i)
    \/ \E i \in CallIds : TxnCommit(i)
    \/ \E i \in CallIds : TxnFail(i)
    \/ \E i \in CallIds : AuthCreateOk(i)
    \/ \E i \in CallIds : AuthCreateFail(i)
    \/ \E i \in CallIds : ProfileWriteOk(i)
    \/ \E i \in CallIds : ProfileWriteFail(i)
    \/ \E i \in CallIds : SignOutSecondary(i)

CreationSpec == CreationInit /\ [][CreationNext]_vars

\* ------------------------------------------------------------- ProfileSetup
\* if (userSnap.exists()) refreshProfile() else create the default profile.
AfterGetDoc(exists) == IF exists THEN "done" ELSE "set"

\* The effect runs (mount, or a change of user or refreshProfile): initProfile().
StartInitProfile(i) ==
    /\ setup.runs[i] = "idle"
    /\ setup' = [setup EXCEPT !.runs[i] = "get"]
    /\ UNCHANGED <<dashboardVars, metricVars, viewVars, chartVars, csvVars, creation, assessment>>

\* await getDoc(userRef) resolves.
GetProfileOk(i) ==
    /\ setup.runs[i] = "get"
    /\ setup' = [setup EXCEPT !.runs[i] = AfterGetDoc(setup.profile.exists)]
    /\ UNCHANGED <<dashboardVars, metricVars, viewVars, chartVars, csvVars, creation, assessment>>

\* await setDoc(userRef, {..., role: 'STUDENT', ...}) resolves.
SetProfileOk(i) ==
    /\ setup.runs[i] = "set"
    /\ setup' = [setup EXCEPT
          !.profile = [exists |-> TRUE, role |-> "STUDENT", writes |-> @.writes + 1],
          !.runs[i] = "notify"]
    /\ UNCHANGED <<dashboardVars, metricVars, viewVars, chartVars, csvVars, creation, assessment>>

\* await addDoc(notifications, {type: 'info', ...}) resolves; refreshProfile().
NotifySignupOk(i) ==
    /\ setup.runs[i] = "notify"
    /\ setup' = [setup EXCEPT !.infos = @ + 1, !.runs[i] = "done"]
    /\ UNCHANGED <<dashboardVars, metricVars, viewVars, chartVars, csvVars, creation, assessment>>

\* An awaited call of the run rejects: the catch shows the error.
InitProfileFail(i) ==
    /\ setup.runs[i] \in {"get", "set", "notify"}
    /\ setup.fails < MaxFails
    /\ setup' = [setup EXCEPT !.fails = @ + 1, !.runs[i] = "failed"]
    /\ UNCHANGED <<dashboardVars, metricVars, viewVars, chartVars, csvVars, creation, assessment>>

\* A signed-in user without a profile document, or with the one an admin
\* created.
SetupInit ==
    /\ now = FirstInstant
    /\ DashboardInit
    /\ allTasks = <<>>
    /\ overdueView = NoView
    /\ rateInput = [total |-> 0, completed |-> 0]
    /\ rateView = NoRates
    /\ ChartsIdle
    /\ ViewsIdle
    /\ CsvIdle
    /\ creation = CreationIdle(NoCounter)
    /\ \E profile \in {NoProfile} \cup [exists : {TRUE}, role : {"STUDENT", "ADMIN"}, writes : {0}] :
          setup = [SetupIdle EXCEPT !.profile = profile]
    /\ assessment = AssessmentIdle

SetupNext ==
    \/ \E i \in RunIds : StartInitProfile(i)
    \/ \E i \in RunIds : GetProfileOk(i)
    \/ \E i \in RunIds : SetProfileOk(i)
    \/ \E i \in RunIds : NotifySignupOk(i)
    \/ \E i \in RunIds : InitProfileFail(i)

SetupSpec == SetupInit /\ [][SetupNext]_vars

\* ------------------------------------------------------------- AssessmentModal
MaxAnswers == 4

\* The answer sets a student may have selected.
AnswerSets == 1..MaxAnswers

\* handleSubmit: the responses are built and the addDoc is awaited.
HandleSubmit(answers) ==
    /\ assessment.pc = "idle" /\ ~assessment.showSuccess
    /\ assessment.submits < MaxSubmits
    /\ assessment' = [assessment EXCEPT !.pc = "save", !.responses = answers,
                                        !.submits = @ + 1]
    /\ UNCHANGED <<dashboardVars, metricVars, viewVars, chartVars, csvVars, creation, setup>>

\* 1. Save Assessment: addDoc(assessments, {userId, submittedAt, responses}).
SaveAssessmentOk ==
    /\ assessment.pc = "save"
    /\ assessment' = [assessment EXCEPT
          !.records = Append(@, [submittedAt |-> assessment.submits,
                                 responses |-> assessment.responses]),
          !.pc = "flag"]
    /\ UNCHANGED <<dashboardVars, metricVars, viewVars, chartVars, csvVars, creation, setup>>

\* 2. Update User Profile Flag: updateDoc(users/uid, {assessmentCompleted: true}).
SetFlagOk ==
    /\ assessment.pc = "flag"
    /\ assessment' = [assessment EXCEPT !.assessmentCompleted = TRUE, !.pc = "notify"]
    /\ UNCHANGED <<dashboardVars, metricVars, viewVars, chartVars, csvVars, creation, setup>>

\* 3. Notify Admin: addDoc(notifications, {type: 'info'}); setShowSuccess(true).
NotifyAssessmentOk ==
    /\ assessment.pc = "notify"
    /\ assessment' = [assessment EXCEPT !.infos = @ + 1, !.showSuccess = TRUE,
                                        !.pc = "idle"]
    /\ UNCHANGED <<dashboardVars, metricVars, viewVars, chartVars, csvVars, creation, setup>>

\* An awaited step rejects: alert("Failed to submit assessment. Please try
\* again."); the modal stays open on the form.
SubmitFail ==
    /\ assessment.pc \in {"save", "flag", "notify"}
    /\ assessment.fails < MaxFails
    /\ assessment' = [assessment EXCEPT !.fails = @ + 1, !.pc = "idle"]
    /\ UNCHANGED <<dashboardVars, metricVars, viewVars, chartVars, csvVars, creation, setup>>

AssessmentNext ==
    \/ \E answers \in AnswerSets : HandleSubmit(answers)
    \/ SaveAssessmentOk
    \/ SetFlagOk
    \/ NotifyAssessmentOk
    \/ SubmitFail

AssessmentSpec == Init /\ [][AssessmentNext]_vars

\* ------------------------------------------------------------- first login
\* The users/{uid} document of an account as ProfileSetup's getDoc finds it.
StoredProfile(email) ==
    IF \E u \in creation.users : u.uid = email
    THEN [exists |-> TRUE,
          role |-> (CHOOSE u \in creation.users : u.uid = email).role,
          writes |-> 0]
    ELSE NoProfile

\* No handleCreateUser call stands between creating the account and writing
\* its profile.
NoProfileWritePending(email) ==
    \A i \in CallIds :
        creation.calls[i].email = email => creation.calls[i].pc # "profile"

\* A created user signs in on the primary auth context of their own browser;
\* AppContent finds no userProfile yet and renders ProfileSetup.
FirstLogin(email) ==
    /\ setup.user = Null
    /\ email \in creation.accounts
    /\ NoProfileWritePending(email)
    /\ setup' = [setup EXCEPT !.user = email, !.profile = StoredProfile(email)]
    /\ UNCHANGED <<dashboardVars, metricVars, viewVars, chartVars, csvVars, creation,
                   assessment>>

OnboardNext ==
    \/ CreationNext
    \/ \E email \in Emails : FirstLogin(email)
    \/ setup.user # Null /\ StartInitProfile(1)
    \/ setup.user # Null /\ GetProfileOk(1)
    \/ setup.user # Null /\ SetProfileOk(1)
    \/ setup.user # Null /\ NotifySignupOk(1)
    \/ setup.user # Null /\ InitProfileFail(1)

OnboardSpec == CreationInit /\ [][OnboardNext]_vars

\* ------------------------------------------------------------- notifications
MaxInbox == 2
MaxWrites == 2

NotifIds == 1..MaxInbox
NotificationTypes == {"info", "success", "warning"}

\* Mutant: the update flips the flag.
ReadUpdate_Toggles(notif) == [notif EXCEPT !.read = ~@]

\* updateDoc(doc(db, 'notifications', notifId), {read: true}): the other
\* fields of the document stay.
ReadUpdate(notif) == [notif EXCEPT !.read = TRUE]

\* The fetched notifications a click has not seen as read.
Unread == {id \in DOMAIN inbox.notifications : ~inbox.notifications[id].read}

RECURSIVE IssueAll(_, _)
\* unread.forEach(n => markAsRead(n.id)), in the order of the array.
IssueAll(writes, ids) ==
    IF ids = {} THEN writes
    ELSE LET id == CHOOSE i \in ids : \A j \in ids : i <= j
         IN  IssueAll(Append(writes, id), ids \ {id})

\* addDoc(collection(db, 'notifications'), {type, message, createdAt, read: false, ...}).
AddNotification(type) ==
    /\ Len(inbox.docs) < MaxInbox
    /\ inbox' = [inbox EXCEPT !.docs = Append(@, [type |-> type,
                                                  createdAt |-> Len(inbox.docs) + 1,
                                                  read |-> FALSE])]
    /\ UNCHANGED <<dashboardVars, metricVars, chartVars, csvVars, accountVars,
                   inspection, overview, monthsView, appView, passwordChange>>

\* The onSnapshot listener: setNotifications(fetched).
InboxSnapshot ==
    /\ inbox.notifications # inbox.docs
    /\ inbox' = [inbox EXCEPT !.notifications = inbox.docs]
    /\ UNCHANGED <<dashboardVars, metricVars, chartVars, csvVars, accountVars,
                   inspection, overview, monthsView, appView, passwordChange>>

\* A click on a row of the list: markAsRead(notif.id) starts its updateDoc.
MarkAsRead(id) ==
    /\ id \in DOMAIN inbox.notifications
    /\ Len(inbox.writes) < MaxWrites
    /\ inbox' = [inbox EXCEPT !.writes = Append(@, id)]
    /\ UNCHANGED <<dashboardVars, metricVars, chartVars, csvVars, accountVars,
                   inspection, overview, monthsView, appView, passwordChange>>

\* "Mark all read" (shown when unreadCount > 0): one markAsRead per unread
\* notification of the fetched list.
MarkAllRead ==
    /\ Unread # {}
    /\ Len(inbox.writes) + Cardinality(Unread) <= MaxWrites
    /\ inbox' = [inbox EXCEPT !.writes = IssueAll(@, Unread)]
    /\ UNCHANGED <<dashboardVars, metricVars, chartVars, csvVars, accountVars,
                   inspection, overview, monthsView, appView, passwordChange>>

\* The sequence without its k-th element.
Without(seq, k) == SubSeq(seq, 1, k - 1) \o SubSeq(seq, k + 1, Len(seq))

\* An updateDoc of markAsRead resolves.
MarkReadOk(k) ==
    /\ k \in DOMAIN inbox.writes
    /\ inbox' = [inbox EXCEPT !.docs[inbox.writes[k]] = ReadUpdate(@),
                              !.writes = Without(@, k)]
    /\ UNCHANGED <<dashboardVars, metricVars, chartVars, csvVars, accountVars,
                   inspection, overview, monthsView, appView, passwordChange>>

\* An updateDoc of markAsRead rejects: the catch logs the error.
MarkReadFail(k) ==
    /\ k \in DOMAIN inbox.writes
    /\ inbox.fails < MaxFails
    /\ inbox' = [inbox EXCEPT !.writes = Without(@, k), !.fails = @ + 1]
    /\ UNCHANGED <<dashboardVars, metricVars, chartVars, csvVars, accountVars,
                   inspection, overview, monthsView, appView, passwordChange>>

InboxNext ==
    \/ \E type \in NotificationTypes : AddNotification(type)
    \/ InboxSnapshot
    \/ \E id \in NotifIds : MarkAsRead(id)
    \/ MarkAllRead
    \/ \E k \in 1..MaxWrites : MarkReadOk(k)
    \/ \E k \in 1..MaxWrites : MarkReadFail(k)

InboxSpec == Init /\ [][InboxNext]_vars

\* ------------------------------------------------------------- student inspection
MaxInspected == 3

\* a.completedAt || 0
OrZero(x) == IF Truthy(x) THEN x ELSE 0

\* Mutant: the history is ordered oldest first.
Compare_OldestFirst(a, b) ==
    IF a.completed /\ b.completed THEN OrZero(a.completedAt) - OrZero(b.completedAt)
    ELSE IF a.completed # b.completed THEN (IF a.completed THEN 1 ELSE -1)
    ELSE a.dueDate - b.dueDate

\* The comparator of selectedStudentTasks.
Compare(a, b) ==
    IF a.completed /\ b.completed THEN OrZero(b.completedAt) - OrZero(a.completedAt)
    ELSE IF a.completed # b.completed THEN (IF a.completed THEN 1 ELSE -1)
    ELSE a.dueDate - b.dueDate

\* The sorted sequence with one more element, placed after its equals.
Insert(sorted, t) ==
    LET before == {k \in 0..Len(sorted) : \A j \in 1..k : Compare(sorted[j], t) <= 0}
        at == CHOOSE k \in before : \A j \in before : j <= k
    IN  SubSeq(sorted, 1, at) \o <<t>> \o SubSeq(sorted, at + 1, Len(sorted))

RECURSIVE SortTasks(_)
\* Array.prototype.sort with the comparator: a stable sort.
SortTasks(seq) ==
    IF seq = <<>> THEN <<>>
    ELSE Insert(SortTasks(SubSeq(seq, 1, Len(seq) - 1)), seq[Len(seq)])

\* allTasks.filter(t => t.userId === selectedStudent.uid).sort(...)
SelectedStudentTasks(all, uid) ==
    SortTasks(FilterSeq(all, {i \in DOMAIN all : all[i].userId = uid}))

\* Tasks as handleAddTask and toggleTask store them: a due date at the start of
\* a day; a completion time, kept or missing, on a completed task.
InspectedTasks ==
    [userId : UserIds, dueDate : {d * DayLen : d \in Days}, completed : {FALSE},
     completedAt : {Null}]
    \cup [userId : UserIds, dueDate : {0}, completed : {TRUE},
          completedAt : {Null} \cup (Instants \ {0})]

InspectedLists == UNION {[1..n -> InspectedTasks] : n \in 0..MaxInspected}

\* The admin selects a student: the inspection view shows selectedStudentTasks.
SelectStudent(uid) ==
    /\ inspection' = [inspection EXCEPT !.shown = TRUE, !.uid = uid,
                          !.sorted = SelectedStudentTasks(inspection.tasks, uid)]
    /\ UNCHANGED <<dashboardVars, metricVars, chartVars, csvVars, accountVars,
                   inbox, overview, monthsView, appView, passwordChange>>

\* fetchData has stored some task list; no student is selected.
InspectionInit ==
    /\ now = FirstInstant
    /\ DashboardInit
    /\ allTasks = <<>>
    /\ overdueView = NoView
    /\ rateInput = [total |-> 0, completed |-> 0]
    /\ rateView = NoRates
    /\ ChartsIdle
    /\ CsvIdle
    /\ AccountsIdle
    /\ inbox = InboxIdle
    /\ \E all \in InspectedLists : inspection = [NoInspection EXCEPT !.tasks = all]
    /\ overview = NoOverview
    /\ monthsView = NoMonths
    /\ appView = NoScreen
    /\ passwordChange = NoPasswordChange

InspectionNext == \E uid \in UserIds : SelectStudent(uid)

InspectionSpec == InspectionInit /\ [][InspectionNext]_vars

\* ------------------------------------------------------------- admin views
MaxFetched == 3
ItemsShown == 2

\* Where Array.prototype.sort leaves its result: in the array it was called on.
SortedInPlace(array, sorted) == sorted

\* The sequence sorted by descending createdAt with one more element, placed
\* after its equals.
InsertRecent(sorted, t) ==
    LET before == {k \in 0..Len(sorted) : \A j \in 1..k : sorted[j].createdAt >= t.createdAt}
        at == CHOOSE k \in before : \A j \in before : j <= k
    IN  SubSeq(sorted, 1, at) \o <<t>> \o SubSeq(sorted, at + 1, Len(sorted))

RECURSIVE SortRecent(_)
\* sort((a, b) => b.createdAt - a.createdAt): a stable sort, newest first.
SortRecent(seq) ==
    IF seq = <<>> THEN <<>>
    ELSE InsertRecent(SortRecent(SubSeq(seq, 1, Len(seq) - 1)), seq[Len(seq)])

\* slice(0, n)
Slice(seq, n) == SubSeq(seq, 1, IF Len(seq) < n THEN Len(seq) ELSE n)

\* The overview tab: Recent Activity calls allTasks.sort(...) on the state
\* array itself and shows the first items of it.
RenderOverview ==
    /\ allTasks' = SortedInPlace(allTasks, SortRecent(allTasks))
    /\ overview' = [overview EXCEPT !.rendered = @ \cup {"overview"},
                                    !.recent = Slice(SortRecent(allTasks), ItemsShown)]
    /\ UNCHANGED <<overdueView, rateInput, rateView>>
    /\ UNCHANGED <<dashboardVars, chartVars, csvVars, accountVars,
                   inbox, inspection, monthsView, appView, passwordChange>>

\* The task explorer: filteredTasks sorts the array that filter() returned;
\* the search matches a student's name (0: the empty query matches all).
RenderTaskExplorer(query) ==
    /\ overview' = [overview EXCEPT
          !.rendered = @ \cup {"tasks"},
          !.filtered = SortRecent(FilterSeq(allTasks,
                          {i \in DOMAIN allTasks : query = 0 \/ allTasks[i].userId = query}))]
    /\ UNCHANGED <<dashboardVars, metricVars, chartVars, csvVars, accountVars,
                   inbox, inspection, monthsView, appView, passwordChange>>

\* The inspection view of a student: selectedStudentTasks.
RenderInspection(uid) ==
    /\ overview' = [overview EXCEPT !.rendered = @ \cup {"inspection"},
                                    !.selected = SelectedStudentTasks(allTasks, uid)]
    /\ UNCHANGED <<dashboardVars, metricVars, chartVars, csvVars, accountVars,
                   inbox, inspection, monthsView, appView, passwordChange>>

\* Tasks as getDocs returns them: ordered by document id, whatever their
\* creation times.
FetchedTasks ==
    [userId : UserIds, createdAt : Instants \ {0}, dueDate : {0}, completed : {FALSE},
     completedAt : {Null}]
    \cup [userId : UserIds, createdAt : {FirstInstant}, dueDate : {0}, completed : {TRUE},
          completedAt : {LastInstant}]

FetchedLists == UNION {[1..n -> FetchedTasks] : n \in 0..MaxFetched}

\* fetchData has run: setAllTasks(tasks).
OverviewInit ==
    /\ now = FirstInstant
    /\ DashboardInit
    /\ \E list \in FetchedLists :
          /\ allTasks = list
          /\ overview = [NoOverview EXCEPT !.fetched = list]
    /\ overdueView = NoView
    /\ rateInput = [total |-> 0, completed |-> 0]
    /\ rateView = NoRates
    /\ ChartsIdle
    /\ CsvIdle
    /\ AccountsIdle
    /\ inbox = InboxIdle
    /\ inspection = NoInspection
    /\ monthsView = NoMonths
    /\ appView = NoScreen
    /\ passwordChange = NoPasswordChange

OverviewNext ==
    \/ RenderOverview
    \/ \E query \in {0} \cup UserIds : RenderTaskExplorer(query)
    \/ \E uid \in UserIds : RenderInspection(uid)

OverviewSpec == OverviewInit /\ [][OverviewNext]_vars

\* ------------------------------------------------------------- ContributionGraph months
MaxYears == 2
\* The first year a graph may be rendered in.
BaseYear == 2023

Years == BaseYear..(BaseYear + MaxYears)

\* getMonth() of December.
December == 11

IsLeapYear(y) == (y % 4 = 0 /\ y % 100 # 0) \/ y % 400 = 0

\* The days of a month (0 = January).
DaysInMonth(y, m) ==
    IF m = 1 THEN (IF IsLeapYear(y) THEN 29 ELSE 28)
    ELSE IF m \in {3, 5, 8, 10} THEN 30 ELSE 31

\* Local calendar dates at midnight.
CalendarDates ==
    {d \in [year : Years, month : 0..11, date : 1..31] : d.date <= DaysInMonth(d.year, d.month)}

\* startOfMonth(date): setDate(1), midnight.
StartOfMonth(d) == [d EXCEPT !.date = 1]

\* addMonths(date, amount): the day of the month is kept, or clamped to the
\* end of the target month.
AddMonths(d, amount) ==
    LET index == d.year * 12 + d.month + amount
        y == index \div 12
        m == index % 12
        last == DaysInMonth(y, m)
    IN  [year |-> y, month |-> m, date |-> IF d.date >= last THEN last ELSE d.date]

\* Mutant: the search walks forward.
SubMonths_Forward(d, amount) == AddMonths(d, amount)

\* subMonths(date, amount) is addMonths(date, -amount).
SubMonths(d, amount) == AddMonths(d, -amount)

RECURSIVE FindAnchor(_, _)
\* while (startDate.getMonth() !== 11) startDate = subMonths(startDate, 1);
\* with the number of iterations made.
FindAnchor(startDate, steps) ==
    IF startDate.month # December
    THEN FindAnchor(SubMonths(startDate, 1), steps + 1)
    ELSE [startDate |-> startDate, steps |-> steps]

\* for (let i = 0; i < 12; i++) result.push(addMonths(startDate, i));
MonthsFrom(startDate) == [i \in 1..12 |-> AddMonths(startDate, i - 1)]

\* The months useMemo, computed when the component mounts.
ComputeMonths ==
    /\ LET anchor == FindAnchor(StartOfMonth(monthsView.today), 0)
       IN  monthsView' = [monthsView EXCEPT !.shown = TRUE, !.steps = anchor.steps,
                                            !.months = MonthsFrom(anchor.startDate)]
    /\ UNCHANGED <<dashboardVars, metricVars, chartVars, csvVars, accountVars,
                   inbox, inspection, overview, appView, passwordChange>>

\* new Date() is some day of the calendar.
MonthsInit ==
    /\ now = FirstInstant
    /\ DashboardInit
    /\ allTasks = <<>>
    /\ overdueView = NoView
    /\ rateInput = [total |-> 0, completed |-> 0]
    /\ rateView = NoRates
    /\ ChartsIdle
    /\ CsvIdle
    /\ AccountsIdle
    /\ inbox = InboxIdle
    /\ inspection = NoInspection
    /\ overview = NoOverview
    /\ \E today \in CalendarDates : monthsView = [NoMonths EXCEPT !.today = today]
    /\ appView = NoScreen
    /\ passwordChange = NoPasswordChange

MonthsNext == ComputeMonths

MonthsSpec == MonthsInit /\ [][MonthsNext]_vars

\* ------------------------------------------------------------- AppContent
\* userProfile: null, or a profile whose requiresPasswordChange is missing
\* ({}), true or false.
UserProfiles ==
    {NoUserProfile}
    \cup [exists : {TRUE}, role : {"STUDENT", "ADMIN"},
          requiresPasswordChange : {{}, {TRUE}, {FALSE}}]

\* The values useAuth() may hand to AppContent.
AuthStates ==
    [loading : BOOLEAN, user : {Null} \cup UserIds, loadingProfile : BOOLEAN,
     userProfile : UserProfiles]

\* Mutant: the forced password change is not looked at.
PasswordGate_Open(userProfile) == FALSE

\* if (userProfile.requiresPasswordChange): true only for the value true.
PasswordGate(userProfile) == TRUE \in userProfile.requiresPasswordChange

\* The component AppContent returns, by its seven steps.
AppContent(auth) ==
    IF auth.loading THEN "LoadingScreen"
    ELSE IF auth.user = Null THEN "LoginPage"
    ELSE IF auth.loadingProfile THEN "LoadingScreen"
    ELSE IF ~auth.userProfile.exists THEN "ProfileSetup"
    ELSE IF PasswordGate(auth.userProfile) THEN "ChangePasswordModal"
    ELSE IF auth.userProfile.role = "ADMIN" THEN "AdminDashboard"
    ELSE "StudentDashboard"

\* AppContent renders with the current auth state.
RenderApp ==
    /\ appView' = [appView EXCEPT !.shown = TRUE,
          !.screen = AppContent([loading |-> appView.loading, user |-> appView.user,
                                 loadingProfile |-> appView.loadingProfile,
                                 userProfile |-> appView.userProfile])]
    /\ UNCHANGED <<dashboardVars, metricVars, chartVars, csvVars, accountVars,
                   inbox, inspection, overview, monthsView, passwordChange>>

\* The auth context holds some state.
AppInit ==
    /\ now = FirstInstant
    /\ DashboardInit
    /\ allTasks = <<>>
    /\ overdueView = NoView
    /\ rateInput = [total |-> 0, completed |-> 0]
    /\ rateView = NoRates
    /\ ChartsIdle
    /\ CsvIdle
    /\ AccountsIdle
    /\ inbox = InboxIdle
    /\ inspection = NoInspection
    /\ overview = NoOverview
    /\ monthsView = NoMonths
    /\ \E auth \in AuthStates :
          appView = [NoScreen EXCEPT !.loading = auth.loading, !.user = auth.user,
                                     !.loadingProfile = auth.loadingProfile,
                                     !.userProfile = auth.userProfile]
    /\ passwordChange = NoPasswordChange

AppNext == RenderApp

AppSpec == AppInit /\ [][AppNext]_vars

\* ------------------------------------------------------------- ChangePasswordModal
MaxTexts == 3
\* The shortest password handleSubmit accepts.
MinPasswordLength == 6

\* What may be typed in a field: a string by its length and which of the
\* strings of that length it is.
Passwords == [length : (MinPasswordLength - 1)..MinPasswordLength, text : 1..MaxTexts]

\* Mutant: the two entries are not compared.
Rejected_LengthOnly(newPassword, confirmPassword) ==
    newPassword.length < MinPasswordLength

\* The two early returns of handleSubmit.
Rejected(newPassword, confirmPassword) ==
    \/ newPassword.length < MinPasswordLength
    \/ newPassword # confirmPassword

\* The form is submitted: an early return with an error, or the call goes on
\* to its awaited updatePassword.
SubmitPassword(newPassword, confirmPassword) ==
    /\ passwordChange.pc = "idle"
    /\ passwordChange.submits < MaxSubmits
    /\ passwordChange' = [passwordChange EXCEPT
          !.newPassword = newPassword,
          !.confirmPassword = confirmPassword,
          !.updated = FALSE,
          !.submits = @ + 1,
          !.error = Rejected(newPassword, confirmPassword),
          !.pc = IF Rejected(newPassword, confirmPassword) THEN "idle" ELSE "password"]
    /\ UNCHANGED <<dashboardVars, metricVars, chartVars, csvVars, accountVars,
                   inbox, inspection, overview, monthsView, appView>>

\* await updatePassword(user, newPassword) resolves.
UpdatePasswordOk ==
    /\ passwordChange.pc = "password"
    /\ passwordChange' = [passwordChange EXCEPT !.password = passwordChange.newPassword,
                                                !.updated = TRUE, !.pc = "flag"]
    /\ UNCHANGED <<dashboardVars, metricVars, chartVars, csvVars, accountVars,
                   inbox, inspection, overview, monthsView, appView>>

\* updatePassword rejects (auth/requires-recent-login, or any other error).
UpdatePasswordFail ==
    /\ passwordChange.pc = "password"
    /\ passwordChange.fails < MaxFails
    /\ passwordChange' = [passwordChange EXCEPT !.error = TRUE, !.fails = @ + 1,
                                                !.pc = "idle"]
    /\ UNCHANGED <<dashboardVars, metricVars, chartVars, csvVars, accountVars,
                   inbox, inspection, overview, monthsView, appView>>

\* await updateDoc(users/uid, {requiresPasswordChange: false}) resolves;
\* refreshProfile() follows and the modal is replaced by the dashboard.
ClearFlagOk ==
    /\ passwordChange.pc = "flag"
    /\ passwordChange' = [passwordChange EXCEPT !.requiresPasswordChange = FALSE,
                                                !.profileWrites = @ + 1, !.pc = "done"]
    /\ UNCHANGED <<dashboardVars, metricVars, chartVars, csvVars, accountVars,
                   inbox, inspection, overview, monthsView, appView>>

\* The updateDoc rejects: the catch shows the error.
ClearFlagFail ==
    /\ passwordChange.pc = "flag"
    /\ passwordChange.fails < MaxFails
    /\ passwordChange' = [passwordChange EXCEPT !.error = TRUE, !.fails = @ + 1,
                                                !.pc = "idle"]
    /\ UNCHANGED <<dashboardVars, metricVars, chartVars, csvVars, accountVars,
                   inbox, inspection, overview, monthsView, appView>>

PasswordNext ==
    \/ \E newPassword, confirmPassword \in Passwords :
          SubmitPassword(newPassword, confirmPassword)
    \/ UpdatePasswordOk
    \/ UpdatePasswordFail
    \/ ClearFlagOk
    \/ ClearFlagFail

PasswordSpec == Init /\ [][PasswordNext]_vars

\* ------------------------------------------------------------- properties
\* A task of the store that is incomplete and due before today.
OverdueInStore(t) ==
    store[t].exists /\ ~store[t].completed /\ DayOf(store[t].dueDate) < DayOf(now)

\* The step is the snapshot listener running.
DeliverStep == subscribed /\ snapPending /\ subscribed' /\ ~snapPending'

\* C1: provided no storage write fails, a task gets at most one 'warning'
\* notification for the same un-reset latch, whatever snapshots are delivered
\* while the scan's writes are in flight.
C1_OneWarningPerLatch ==
    fails = 0 => \A t \in TaskIds : warnedSinceReset[t] <= 1

\* C2: the listener starts a scan callback only for a task of the snapshot
\* that is incomplete, due before today and not latched; the listener itself
\* writes no task record and no notification, and a 'warning' is only ever
\* created by such a callback.
C2_ScanSkipsLatched ==
    [][ /\ \A t \in TaskIds :
             scanJobs'[t].notify > scanJobs[t].notify
               => OverdueInStore(t) /\ ~store[t].overdueNotificationSent
        /\ DeliverStep => store' = store /\ warnings' = warnings /\ successes' = successes
        /\ \A t \in TaskIds :
             warnings'[t] # warnings[t]
               => scanJobs[t].notify > 0 /\ scanJobs'[t].notify = scanJobs[t].notify - 1
      ]_vars

\* C2 witness: a latched overdue task was delivered to the listener, which
\* started nothing for it.
C2_Witness ==
    \E t \in TaskIds :
        /\ OverdueInStore(t) /\ store[t].overdueNotificationSent
        /\ subscribed /\ ~snapPending /\ tasks[t].overdueNotificationSent
        /\ scanJobs[t] = NoScanJobs /\ warnings[t] = 1

\* C3: the stored latch goes from true to false only in a write that leaves
\* the due date today or later.
C3_LatchClearedOnlyByNonPastEdit ==
    [][ \A t \in TaskIds :
          (store[t].overdueNotificationSent /\ ~store'[t].overdueNotificationSent)
            => DayOf(store'[t].dueDate) >= DayOf(now) ]_vars

\* C4: no task whose due date is today or later has its latch set.
C4_NoLatchOnNonPastTask ==
    \A t \in TaskIds :
        (store[t].exists /\ store[t].overdueNotificationSent)
          => DayOf(store[t].dueDate) < DayOf(now)

C6_ToggleNotifiesOnCompletionOnly ==
    [][ /\ \A i \in ToggleSlots :
             LET job == toggleJobs[i]
                 job2 == toggleJobs'[i]
             IN  /\ (job.pc = "idle" /\ job2.pc # "idle")
                      => /\ job2.pc = "update"
                         /\ job2.newStatus = ~tasks[job2.id].completed
                         /\ successes' = successes /\ store' = store
                 /\ (job.pc = "update" /\ job2 # job)
                      => \/ /\ fails' = fails + 1
                            /\ job2 = IdleToggle /\ store' = store
                            /\ successes' = successes /\ warnings' = warnings
                         \/ /\ fails' = fails
                            /\ store'[job.id].completed = job.newStatus
                            /\ successes' = successes /\ warnings' = warnings
                            /\ job2 = IF job.newStatus THEN [job EXCEPT !.pc = "notify"]
                                      ELSE IdleToggle
                 /\ (job.pc = "notify" /\ job2 # job)
                      => /\ job.newStatus /\ job2 = IdleToggle /\ store' = store
                         /\ warnings' = warnings
                         /\ \/ fails' = fails + 1 /\ successes' = successes
                            \/ fails' = fails
                               /\ successes' = [successes EXCEPT ![job.id] = @ + 1]
        /\ successes' # successes
             => \E i \in ToggleSlots : toggleJobs[i].pc = "notify" /\ toggleJobs'[i] = IdleToggle
      ]_vars

\* C6 witness: a task was completed (one 'success') and then toggled back,
\* which created nothing.
C6_Witness ==
    \E t \in TaskIds :
        /\ store[t].exists /\ ~store[t].completed /\ successes[t] = 1
        /\ \A i \in ToggleSlots : toggleJobs[i] = IdleToggle
        /\ fails = 0

\* C7: a stored task has a completedAt timestamp iff it is completed.
C7_CompletedAtIffCompleted ==
    \A t \in TaskIds :
        store[t].exists => (store[t].completedAt # Null <=> store[t].completed)

\* C7 witness: a completed task carrying its timestamp, beside one that was
\* completed and reopened.
C7_Witness ==
    /\ \E t \in TaskIds : store[t].completed /\ store[t].completedAt = now
    /\ \E t \in TaskIds : store[t].exists /\ ~store[t].completed /\ successes[t] > 0

\* The overdue predicate as the specification states it, for a valid due date.
DueBeforeToday(task) == ~task.completed /\ DayOf(task.dueDate) < DayOf(now)

\* C8: for a task with a valid due date each of the three overdue filters
\* keeps it exactly when it is not completed and its due day is before today.
C8_OverdueIffDueBeforeToday ==
    overdueView.evaluated =>
        \A i \in DOMAIN allTasks :
            allTasks[i].dueDate # NaN =>
                /\ i \in overdueView.scan <=> DueBeforeToday(allTasks[i])
                /\ i \in overdueView.csv <=> DueBeforeToday(allTasks[i])
                /\ i \in overdueView.system <=> DueBeforeToday(allTasks[i])

\* C8 witness: evaluated on an incomplete task due earlier today (kept by no
\* filter) beside an incomplete task due yesterday (kept by all).
C8_Witness ==
    /\ overdueView.evaluated
    /\ \E i \in DOMAIN allTasks :
          /\ ~allTasks[i].completed /\ allTasks[i].dueDate # NaN
          /\ allTasks[i].dueDate < now /\ DayOf(allTasks[i].dueDate) = DayOf(now)
          /\ i \notin overdueView.scan
    /\ \E i \in DOMAIN allTasks : i \in overdueView.scan /\ i \in overdueView.csv

\* C9: a task whose dueDate is no valid instant is kept by none of the three
\* overdue filters.
C9_InvalidDueDateNeverOverdue ==
    overdueView.evaluated =>
        \A i \in DOMAIN allTasks :
            allTasks[i].dueDate = NaN =>
                /\ i \notin overdueView.scan
                /\ i \notin overdueView.csv
                /\ i \notin overdueView.system

\* C9 witness: evaluated on an incomplete task with an invalid due date.
C9_Witness ==
    /\ overdueView.evaluated
    /\ \E i \in DOMAIN allTasks : allTasks[i].dueDate = NaN /\ ~allTasks[i].completed

\* round(100 * completed / total) with halves rounded up, in exact arithmetic.
ExactRoundedPercent(completed, total) ==
    IF total = 0 THEN 0 ELSE (200 * completed + total) \div (2 * total)

\* C10: every shown completion rate is round(100 * completed / total) with
\* halves rounded up, 0 for the empty list, and an integer in 0..100.
C10_RateIsRoundedPercent ==
    rateView.shown =>
        \A r \in {rateView.student, rateView.system, rateView.inspection, rateView.csv} :
            /\ r = ExactRoundedPercent(rateInput.completed, rateInput.total)
            /\ r \in 0..100

\* The number of tasks that are completed with a valid, non-zero completedAt
\* on the day.
CompletedOnDay(list, day) ==
    Cardinality({i \in DOMAIN list :
        /\ list[i].completed
        /\ list[i].completedAt \in Instants \ {0}
        /\ DayOf(list[i].completedAt) = DayOf(day)})

\* C11: the count the graph reads from its day-key map and the count the line
\* chart gets by re-scanning are both the number of tasks completed on the
\* day; tasks with a missing, zero or invalid completedAt are in neither.
C11_GraphCountIsChartCount ==
    graphView.shown =>
        /\ graphView.graph = CompletedOnDay(graphView.tasks, graphView.day)
        /\ graphView.chart = CompletedOnDay(graphView.tasks, graphView.day)
        /\ (\A i \in DOMAIN graphView.tasks :
               graphView.tasks[i].completedAt \in {0, NaN, Null, BeyondRange})
             => graphView.graph = 0 /\ graphView.chart = 0

\* C11 witness: the first day rendered for a task completed on it at a valid
\* instant beside a completed task whose completedAt is zero.
C11_Witness ==
    /\ graphView.shown /\ graphView.day = 0
    /\ Len(graphView.tasks) = 2
    /\ graphView.tasks[1].completed /\ graphView.tasks[1].completedAt = 0
    /\ graphView.tasks[2].completed /\ graphView.tasks[2].completedAt \in Instants \ {0}
    /\ graphView.graph = 1 /\ graphView.chart = 1

\* The level the thresholds give a count.
ThresholdLevel(count) ==
    CASE count = 0 -> 0
      [] count = 1 -> 1
      [] count \in 2..3 -> 2
      [] count \in 4..5 -> 3
      [] count >= 6 -> 4

\* C12: getColor gives 0 -> 0, 1 -> 1, 2..3 -> 2, 4..5 -> 3, 6 or more -> 4,
\* one of the five levels for every count, non-decreasing in the count.
C12_GetColorThresholds ==
    colorView.shown =>
        /\ \A i \in 1..2 :
              /\ colorView.levels[i] = ThresholdLevel(colorView.counts[i])
              /\ colorView.levels[i] \in 0..4
        /\ colorView.counts[1] <= colorView.counts[2]
             => colorView.levels[1] <= colorView.levels[2]

\* C12 witness: a cell of 3 at level 2 beside a cell of 10 at level 4.
C12_Witness ==
    /\ colorView.shown
    /\ colorView.counts = <<3, 10>>
    /\ colorView.levels = <<2, 4>>

\* A double in [0, 1].
InUnitInterval(x) ==
    \/ x.hi = 0
    \/ x.e < 0 - (MantissaBits - 1)
    \/ x.e = 0 - (MantissaBits - 1) /\ x.hi = HiOne /\ x.mid = 0 /\ x.lo = 0

\* C13: the chart's denominator is max(largest bucket count, 5): exactly 5
\* when no bucket count exceeds 5, never 0, and every count / denominator is
\* between 0 and 1.
C13_ScaleDenominator ==
    scaleView.shown =>
        LET counts == scaleView.counts
        IN  /\ \A i \in DOMAIN counts : counts[i] <= scaleView.maxVal
            /\ scaleView.maxVal >= 5
            /\ scaleView.maxVal = 5 \/ \E i \in DOMAIN counts : counts[i] = scaleView.maxVal
            /\ (\A i \in DOMAIN counts : counts[i] <= 5) => scaleView.maxVal = 5
            /\ scaleView.maxVal # 0
            /\ \A i \in DOMAIN counts : InUnitInterval(scaleView.heights[i])

\* C13 witness: buckets of 0 and 2 only, scaled by 5.
C13_Witness ==
    /\ scaleView.shown
    /\ scaleView.counts = <<0, 2>>
    /\ scaleView.maxVal = 5
    /\ scaleView.heights[1] = FloatZero

\* The tasks of all fetched tasks that belong to user uid.
OwnTaskIndexes(uid) == {i \in DOMAIN allTasks : allTasks[i].userId = uid}

\* The types exported so far.
Exported == {type \in FilterTypes : exports[type].made}

\* |x|
Abs(x) == IF x < 0 THEN 0 - x ELSE x

\* C14: every exported row has total = the student's tasks, completed = those
\* with completed true, pending = total - completed, overdue = the incomplete
\* ones due before today (at most pending), and rate = the completion
\* percentage rounded to a nearest integer (0 without tasks); 10 tasks with 7
\* completed and 1 overdue give total=10, completed=7, pending=3, overdue=1,
\* rate=70.
C14_CsvRowCounts ==
    \A type \in Exported : \A k \in DOMAIN exports[type].rows :
        LET row == exports[type].rows[k]
            own == OwnTaskIndexes(row.uid)
            done == {i \in own : allTasks[i].completed}
            late == {i \in own : /\ ~allTasks[i].completed
                                 /\ allTasks[i].dueDate # NaN
                                 /\ DayOf(allTasks[i].dueDate) < DayOf(now)}
        IN  /\ row.total = Cardinality(own)
            /\ row.completed = Cardinality(done)
            /\ row.pending = Cardinality(own) - Cardinality(done)
            /\ row.overdue = Cardinality(late)
            /\ row.overdue <= row.pending
            /\ IF own = {} THEN row.rate = 0
               ELSE 2 * Abs(row.rate * Cardinality(own) - 100 * Cardinality(done))
                      <= Cardinality(own)
            /\ (Cardinality(own) = 10 /\ Cardinality(done) = 7 /\ Cardinality(late) = 1)
                 => /\ row.total = 10 /\ row.completed = 7 /\ row.pending = 3
                    /\ row.overdue = 1 /\ row.rate = 70

\* C14 witness: the exported row of a student with 10 tasks, 7 completed, 1
\* overdue and 2 pending but not overdue.
C14_Witness ==
    /\ exports["all"].made /\ Len(exports["all"].rows) = 1
    /\ Len(allTasks) = 10
    /\ Cardinality({i \in DOMAIN allTasks : allTasks[i].completed}) = 7
    /\ Cardinality({i \in DOMAIN allTasks : ~allTasks[i].completed /\ allTasks[i].dueDate = 0}) = 1
    /\ exports["all"].rows[1].total = 10 /\ exports["all"].rows[1].completed = 7
    /\ exports["all"].rows[1].pending = 3 /\ exports["all"].rows[1].overdue = 1
    /\ exports["all"].rows[1].rate = 70

\* The rows of an export, as a set.
RowsOf(type) == {exports[type].rows[k] : k \in DOMAIN exports[type].rows}

\* C15: a row of the 'active' or 'pending' export is the row the 'all' export
\* has for that student; the 'active' and 'pending' exports share no student
\* and together hold exactly the rows of the 'all' export.
C15_FilterSelectsStudentsOnly ==
    /\ \A type \in Exported \ {"all"} :
          "all" \in Exported => RowsOf(type) \subseteq RowsOf("all")
    /\ {"active", "pending"} \subseteq Exported
          => {r.uid : r \in RowsOf("active")} \cap {r.uid : r \in RowsOf("pending")} = {}
    /\ Exported = FilterTypes
          => /\ RowsOf("active") \cup RowsOf("pending") = RowsOf("all")
             /\ Len(exports["active"].rows) + Len(exports["pending"].rows) = Len(exports["all"].rows)

\* C15 witness: all three exports made for an active and a pending student
\* who both have a task.
C15_Witness ==
    /\ Exported = FilterTypes
    /\ Len(exports["all"].rows) = 2 /\ Len(exports["active"].rows) = 1
    /\ Len(exports["pending"].rows) = 1
    /\ \A k \in 1..2 : exports["all"].rows[k].total = 1

\* The number a string of decimal digits denotes.
RECURSIVE DecimalValue(_)
DecimalValue(digits) ==
    IF digits = <<>> THEN 0
    ELSE 10 * DecimalValue(SubSeq(digits, 1, Len(digits) - 1)) + digits[Len(digits)]

\* The numbers the transactions handed out.
IssuedCounts == {creation.issued[k].count : k \in DOMAIN creation.issued}

\* C16: the student IDs the calls obtained are pairwise distinct, each is
\* 'DSV' followed by the zero-padded counter value after its own increment,
\* no number is skipped, and two calls against a counter at 41 get DSV0042
\* and DSV0043 and leave the counter at 43.
C16_DistinctStudentIds ==
    LET issued == creation.issued
    IN  /\ \A j, k \in DOMAIN issued :
              j # k => issued[j].studentId # issued[k].studentId
        /\ \A k \in DOMAIN issued :
              /\ issued[k].studentId.prefix = "DSV"
              /\ Len(issued[k].studentId.digits) >= 4
              /\ DecimalValue(issued[k].studentId.digits) = issued[k].count
              /\ Len(issued[k].studentId.digits) > 4 => issued[k].studentId.digits[1] # 0
              /\ issued[k].count > 0
        /\ issued # <<>> =>
              /\ creation.counter.exists
              /\ IssuedCounts = (creation.counter.studentCount - Len(issued) + 1)
                                  .. creation.counter.studentCount
        /\ (Len(issued) = 2 /\ creation.counter.studentCount = 43) =>
              {issued[k].studentId : k \in DOMAIN issued}
                = {[prefix |-> "DSV", digits |-> <<0, 0, 4, 2>>],
                   [prefix |-> "DSV", digits |-> <<0, 0, 4, 3>>]}

\* C16 witness: two calls read the counter at 41; the second committed, the
\* first found the document changed, ran again and committed.
C16_Witness ==
    /\ Len(creation.issued) = 2
    /\ creation.counter.studentCount = 43
    /\ creation.calls[1].studentId.digits = <<0, 0, 4, 3>>
    /\ creation.calls[2].studentId.digits = <<0, 0, 4, 2>>
    /\ creation.calls[1].attempts = 2 /\ creation.calls[2].attempts = 1

\* C17: a call that failed left the counter as it was, and every ID a
\* finished call took from the counter is carried by a stored student profile.
C17_IdConsumedAllOrNothing ==
    \A k \in DOMAIN creation.issued :
        LET call == creation.calls[creation.issued[k].call]
        IN  /\ call.pc # "failed"
            /\ call.pc = "done" =>
                  \E u \in creation.users : u.studentId = creation.issued[k].studentId

\* C18: the user signed in on the primary auth context is the admin, in every
\* state of every call.
C18_AdminSessionKept ==
    \A i \in CallIds : creation.primaryUser[i] = AdminUid

\* C18 witness: one call failed at its profile write with the new user still
\* signed in on the secondary context, another call finished and signed out.
C18_Witness ==
    /\ \E i \in CallIds :
          creation.calls[i].pc = "failed" /\ creation.secondaryUser[i] \in Emails
    /\ \E i \in CallIds :
          creation.calls[i].pc = "done" /\ creation.secondaryUser[i] = Null

\* No run of the setup effect is between its getDoc and its last write.
SetupQuiet == \A i \in RunIds : setup.runs[i] \in {"idle", "done", "failed"}

\* C19: ProfileSetup writes the profile at most once, with role STUDENT, and
\* only when none existed; a profile it created is announced by at most one
\* 'info' notification, and by exactly one once no run is in flight; an
\* existing profile is neither overwritten nor announced.
C19_OneProfileOneInfo ==
    /\ setup.profile.writes <= 1
    /\ setup.infos <= setup.profile.writes
    /\ setup.profile.writes = 1 => setup.profile.role = "STUDENT"
    /\ (SetupQuiet /\ setup.profile.writes = 1) => setup.infos = 1

\* C20: the assessments collection never holds more than one record of the
\* user, and a stored record never changes.
C20_OneAssessmentPerUser ==
    [][ /\ Len(assessment'.records) <= 1
        /\ \A k \in DOMAIN assessment.records :
              /\ k \in DOMAIN assessment'.records
              /\ assessment'.records[k] = assessment.records[k] ]_vars

\* C21: a stored notification is never deleted, none of its fields but read
\* changes, and read never goes from true back to false.
C21_NotificationsAppendOnly ==
    [][ \A id \in DOMAIN inbox.docs :
          /\ id \in DOMAIN inbox'.docs
          /\ [inbox'.docs[id] EXCEPT !.read = inbox.docs[id].read] = inbox.docs[id]
          /\ inbox.docs[id].read => inbox'.docs[id].read ]_vars

\* A markAsRead write is in flight for a notification that is already read.
C21_Witness ==
    \E k \in DOMAIN inbox.writes :
        /\ inbox.docs[inbox.writes[k]].read
        /\ Len(inbox.docs) = MaxInbox

\* The number of positions of a sequence holding a value.
Occurrences(seq, x) == Cardinality({i \in DOMAIN seq : seq[i] = x})

\* What the comparator looks at: the group, and the date it orders the group by.
SortKey(t) == IF t.completed THEN [completed |-> TRUE, at |-> OrZero(t.completedAt)]
              ELSE [completed |-> FALSE, at |-> t.dueDate]

\* C22: selectedStudentTasks is a permutation of the selected student's tasks,
\* incomplete before completed, incomplete by ascending due date, completed by
\* descending completion time; the comparator is antisymmetric and transitive
\* on them, and every input order gives the same result up to ties.
C22_InspectionOrder ==
    inspection.shown =>
        LET all == inspection.tasks
            out == inspection.sorted
            own == {all[i] : i \in {j \in DOMAIN all : all[j].userId = inspection.uid}}
        IN  /\ \A t \in InspectedTasks :
                  Occurrences(out, t) =
                      (IF t.userId = inspection.uid THEN Occurrences(all, t) ELSE 0)
            /\ \A i, j \in DOMAIN out : i < j =>
                  /\ out[i].completed => out[j].completed
                  /\ (~out[i].completed /\ ~out[j].completed) =>
                        out[i].dueDate <= out[j].dueDate
                  /\ (out[i].completed /\ out[j].completed) =>
                        OrZero(out[i].completedAt) >= OrZero(out[j].completedAt)
            /\ \A a, b \in own :
                  /\ (Compare(a, b) < 0) = (Compare(b, a) > 0)
                  /\ (Compare(a, b) = 0) = (Compare(b, a) = 0)
            /\ \A a, b, c \in own :
                  /\ (Compare(a, b) <= 0 /\ Compare(b, c) <= 0) => Compare(a, c) <= 0
                  /\ (Compare(a, b) = 0 /\ Compare(b, c) = 0) => Compare(a, c) = 0
            /\ \A p \in Permutations(DOMAIN all) :
                  LET other == SelectedStudentTasks([i \in DOMAIN all |-> all[p[i]]],
                                                    inspection.uid)
                  IN  [i \in DOMAIN other |-> SortKey(other[i])]
                          = [i \in DOMAIN out |-> SortKey(out[i])]

\* A list of one student that arrives out of order: a completed task first,
\* then two incomplete ones with the later due date first.
C22_Witness ==
    /\ inspection.shown
    /\ Len(inspection.sorted) = MaxInspected
    /\ inspection.tasks[1].completed
    /\ ~inspection.tasks[2].completed /\ ~inspection.tasks[3].completed
    /\ inspection.tasks[2].dueDate > inspection.tasks[3].dueDate
    /\ inspection.sorted # inspection.tasks

\* C23: the scan issues a task's latch write only in the step in which the
\* task's notification write succeeded, never when that write failed; a
\* latch in the store, and a latch write in flight, have a 'warning'
\* notification of the task, whether or not the listener is still attached.
C23_LatchAfterNotification ==
    [][ \A t \in TaskIds :
          /\ scanJobs'[t].latch > scanJobs[t].latch =>
                /\ warnings'[t] = warnings[t] + 1
                /\ scanJobs'[t].notify = scanJobs[t].notify - 1
          /\ scanJobs'[t].latch > 0 => warnings'[t] >= 1
          /\ store'[t].overdueNotificationSent => warnings'[t] >= 1 ]_vars

\* The listener was detached in the middle of a scan whose notification write
\* had succeeded, and the latch was then written.
C23_Witness ==
    \E t \in TaskIds :
        /\ ~subscribed
        /\ store[t].overdueNotificationSent
        /\ \E u \in TaskIds : scanJobs[u].latch > 0 /\ ~store[u].overdueNotificationSent

\* C24: when a handleCreateUser call has returned, with success or with an
\* error, nobody is signed in on the secondary auth context it used.
C24_SecondaryDiscarded ==
    \A i \in CallIds :
        creation.calls[i].pc \in {"done", "failed"} => creation.secondaryUser[i] = Null

\* C25: whatever views were rendered, allTasks holds the elements fetchData
\* stored, in the order it stored them.
C25_SnapshotUnchanged == allTasks = overview.fetched

\* The number of a calendar month, counted from year 0.
MonthIndex(d) == d.year * 12 + d.month

\* C26: the search for the anchor makes at most 11 steps back; the list is 12
\* consecutive calendar months from a December to the next November, the
\* December being the most recent one not after the current month, so the
\* current month is in the list.
C26_MonthsFromLastDecember ==
    monthsView.shown =>
        LET list == monthsView.months
            today == monthsView.today
        IN  /\ monthsView.steps <= 11
            /\ Len(list) = 12
            /\ list[1].month = December
            /\ list[12].month = 10
            /\ \A i \in 1..12 : list[i].date = 1
            /\ \A i \in 1..11 : MonthIndex(list[i + 1]) = MonthIndex(list[i]) + 1
            /\ MonthIndex(list[1]) <= MonthIndex(today)
            /\ MonthIndex(today) - MonthIndex(list[1]) < 12
            /\ \E i \in 1..12 : list[i].year = today.year /\ list[i].month = today.month

\* The graph is computed on the last day of a January: 1 step back, to the
\* December of the year before.
C26_Witness ==
    /\ monthsView.shown
    /\ monthsView.today.month = 0 /\ monthsView.today.date = 31
    /\ monthsView.steps = 1
    /\ monthsView.months[1].year = monthsView.today.year - 1

\* C27: every toggleTask call that goes on to create a 'success' notification
\* is one whose update changed the stored completed flag from false to true,
\* so no completion is announced twice.
C27_OneSuccessPerCompletion ==
    [][ \A i \in ToggleSlots :
          (toggleJobs[i].pc = "update" /\ toggleJobs'[i].pc = "notify") =>
              /\ ~store[toggleJobs[i].id].completed
              /\ store'[toggleJobs[i].id].completed ]_vars

\* C28: an account that handleCreateUser created, once no call is about to
\* write its profile, has the users document the admin chose for it (written
\* with requiresPasswordChange = true); when its user signs in, ProfileSetup
\* writes no default STUDENT profile with requiresPasswordChange = false.
C28_CreatedAccountHasAdminProfile ==
    /\ \A email \in creation.accounts :
          NoProfileWritePending(email) =>
              \E u \in creation.users, i \in CallIds :
                  /\ u.uid = email
                  /\ creation.calls[i].email = email
                  /\ creation.calls[i].role = u.role
    /\ setup.user # Null => setup.profile.writes = 0

\* Auth loading has finished, a user is signed in, and the profile has been
\* loaded and exists.
ProfileLoaded ==
    /\ ~appView.loading
    /\ appView.user # Null
    /\ ~appView.loadingProfile
    /\ appView.userProfile.exists

\* C29: a dashboard is shown only with a loaded, existing profile whose
\* requiresPasswordChange is not true; AdminDashboard only for role ADMIN; a
\* loaded profile with requiresPasswordChange = true gets ChangePasswordModal.
C29_DashboardGate ==
    appView.shown =>
        /\ appView.screen \in {"AdminDashboard", "StudentDashboard"} =>
              /\ ProfileLoaded
              /\ TRUE \notin appView.userProfile.requiresPasswordChange
        /\ appView.screen = "AdminDashboard" => appView.userProfile.role = "ADMIN"
        /\ (ProfileLoaded /\ TRUE \in appView.userProfile.requiresPasswordChange) =>
              appView.screen = "ChangePasswordModal"

\* An admin who must change the password is rendered: ChangePasswordModal.
C29_Witness ==
    /\ appView.shown
    /\ ProfileLoaded
    /\ appView.userProfile.role = "ADMIN"
    /\ appView.userProfile.requiresPasswordChange = {TRUE}
    /\ appView.screen = "ChangePasswordModal"

\* C30: the profile is written, and the flag cleared, only by a call whose
\* updatePassword has succeeded with an accepted password (6 characters or
\* more, both entries equal); a rejected form and a failed updatePassword
\* write nothing and leave the flag true.
C30_FlagClearedAfterPasswordUpdate ==
    [][ /\ (passwordChange'.profileWrites # passwordChange.profileWrites
            \/ passwordChange'.requiresPasswordChange # passwordChange.requiresPasswordChange) =>
              /\ passwordChange.pc = "flag"
              /\ passwordChange.updated
              /\ passwordChange.password = passwordChange.newPassword
              /\ passwordChange.newPassword.length >= MinPasswordLength
              /\ passwordChange.newPassword = passwordChange.confirmPassword
              /\ ~passwordChange'.requiresPasswordChange
        /\ (passwordChange.pc = "idle" /\ passwordChange'.submits # passwordChange.submits
            /\ (passwordChange'.newPassword.length < MinPasswordLength
                \/ passwordChange'.newPassword # passwordChange'.confirmPassword)) =>
              /\ passwordChange'.pc = "idle"
              /\ passwordChange'.requiresPasswordChange
        /\ (passwordChange.pc = "password" /\ passwordChange'.fails # passwordChange.fails) =>
              /\ passwordChange'.pc = "idle"
              /\ passwordChange'.requiresPasswordChange ]_vars

\* A first submission failed at updatePassword, a second one went through
\* and cleared the flag.
C30_Witness ==
    /\ passwordChange.pc = "done"
    /\ passwordChange.fails = 1
    /\ passwordChange.submits = 2
    /\ ~passwordChange.requiresPasswordChange
    /\ passwordChange.password = passwordChange.newPassword
====
